---------------------------- MODULE Spec2Model ----------------------------
(***************************************************************************)
(* Model of the URL shortener bot (src/deepseek_python_20251004_8ab91b.py):*)
(* URL validation, the token cache, the four provider adapters inside      *)
(* shorten_url, the single / all dispatchers, the request counters and the *)
(* handler coroutines that call them.                                      *)
(*                                                                         *)
(* Python strings are modelled as sequences of one-character strings over  *)
(* ASCII, so that validation, hashing, trimming and payload parsing are    *)
(* computed and not assumed.                                               *)
(***************************************************************************)
EXTENDS Integers, Sequences, FiniteSets, TLC

(***************************************************************************)
(* Characters and strings                                                  *)
(***************************************************************************)
\* the characters with codes 32..95
AsciiLow ==
    << " ", "!", "\"", "#", "$", "%", "&", "'", "(", ")", "*", "+", ",", "-", ".", "/",
       "0", "1", "2", "3", "4", "5", "6", "7", "8", "9", ":", ";", "<", "=", ">", "?",
       "@", "A", "B", "C", "D", "E", "F", "G", "H", "I", "J", "K", "L", "M", "N", "O",
       "P", "Q", "R", "S", "T", "U", "V", "W", "X", "Y", "Z", "[", "\\", "]", "^", "_" >>

\* the characters with codes 97..126
AsciiHigh ==
    << "a", "b", "c", "d", "e", "f", "g", "h", "i", "j", "k", "l", "m", "n", "o",
       "p", "q", "r", "s", "t", "u", "v", "w", "x", "y", "z", "{", "|", "}", "~" >>

\* ord(c) for the characters of the model's alphabet
OrdOf ==
    [c \in {"\t", "\n", "\f", "\r"} \cup {AsciiLow[i] : i \in 1..Len(AsciiLow)}
                \cup {AsciiHigh[i] : i \in 1..Len(AsciiHigh)} |->
        CASE c = "\t" -> 9
          [] c = "\n" -> 10
          [] c = "\f" -> 12
          [] c = "\r" -> 13
          [] \E i \in 1..Len(AsciiLow) : AsciiLow[i] = c ->
                31 + (CHOOSE i \in 1..Len(AsciiLow) : AsciiLow[i] = c)
          [] OTHER -> 96 + (CHOOSE i \in 1..Len(AsciiHigh) : AsciiHigh[i] = c)]

Ord(c) == OrdOf[c]

\* A-Z (codes 65..90), a-z (97..122) and 0-9 (48..57)
IsUpper(c) == c \in {AsciiLow[i] : i \in 34..59}
IsLower(c) == c \in {AsciiHigh[i] : i \in 1..26}
IsAlpha(c) == IsUpper(c) \/ IsLower(c)
IsDigit(c) == c \in {AsciiLow[i] : i \in 17..26}
IsAlnum(c) == IsAlpha(c) \/ IsDigit(c)
\* \s of the re module, restricted to the alphabet
IsSpace(c) == c \in {" ", "\t", "\n", "\r", "\f"}

\* str.lower() on one character
Lower(c) == IF IsUpper(c) THEN AsciiHigh[Ord(c) - 64] ELSE c

\* s.startswith(p) at offset i (i characters already consumed)
StartsWithAt(s, i, p) ==
    /\ i + Len(p) <= Len(s)
    /\ \A k \in 1..Len(p) : s[i + k] = p[k]

\* the same, ignoring case (re.IGNORECASE on a literal)
StartsWithAtNoCase(s, i, p) ==
    /\ i + Len(p) <= Len(s)
    /\ \A k \in 1..Len(p) : Lower(s[i + k]) = Lower(p[k])

StartsWith(s, p) == StartsWithAt(s, 0, p)

\* p in s
Contains(s, p) == \E i \in 0..Len(s) : StartsWithAt(s, i, p)

\* str.strip(): drop leading and trailing whitespace
Strip(s) ==
    LET keep == {i \in 1..Len(s) : ~IsSpace(s[i])}
    IN  IF keep = {} THEN << >>
        ELSE LET lo == CHOOSE i \in keep : \A j \in keep : i <= j
                 hi == CHOOSE i \in keep : \A j \in keep : i >= j
             IN  SubSeq(s, lo, hi)

\* s[:n]
Prefix(s, n) == IF Len(s) <= n THEN s ELSE SubSeq(s, 1, n)

(***************************************************************************)
(* is_valid_url: the regular expression, matched as the set of offsets     *)
(* each part of the pattern can end at                                     *)
(***************************************************************************)
\* all of s[p+1..q] satisfy the class
AllDigits(s, p, q) == \A k \in (p + 1)..q : IsDigit(s[k])
AllNonSpace(s, p, q) == \A k \in (p + 1)..q : ~IsSpace(s[k])

\* $ without re.MULTILINE: the end, or just before a final newline
AtEnd(s, q) == q = Len(s) \/ (q = Len(s) - 1 /\ s[Len(s)] = "\n")

\* ^https?://
SchemeEnds(s) ==
    {q \in {7, 8} :
        \/ q = 7 /\ StartsWithAtNoCase(s, 0, <<"h", "t", "t", "p", ":", "/", "/">>)
        \/ q = 8 /\ StartsWithAtNoCase(s, 0, <<"h", "t", "t", "p", "s", ":", "/", "/">>)}

\* [A-Z0-9](?:[A-Z0-9-]{0,61}[A-Z0-9])?\.   from offset p
LabelEnds(s, p) ==
    {q \in (p + 2)..Len(s) :
        /\ s[q] = "."
        /\ q - 1 - p <= 63
        /\ IsAlnum(s[p + 1])
        /\ IsAlnum(s[q - 1])
        /\ \A k \in (p + 1)..(q - 1) : IsAlnum(s[k]) \/ s[k] = "-"}

\* (?: label )+ : every offset reachable by one or more labels
RECURSIVE LabelsFrom(_, _, _)
LabelsFrom(s, frontier, seen) ==
    LET next == UNION {LabelEnds(s, p) : p \in frontier} \ seen
    IN  IF next = {} THEN seen
        ELSE LabelsFrom(s, next, seen \cup next)

\* [A-Z]{2,6}\.?
TldEnds(s, p) ==
    LET bare == {q \in (p + 2)..(p + 6) : q <= Len(s) /\ \A k \in (p + 1)..q : IsAlpha(s[k])}
    IN  bare \cup {q + 1 : q \in {r \in bare : r < Len(s) /\ s[r + 1] = "."}}

\* \d{1,3}
OctetEnds(s, P) ==
    UNION {{q \in (p + 1)..(p + 3) : q <= Len(s) /\ AllDigits(s, p, q)} : p \in P}

\* \.
DotEnds(s, P) == {p + 1 : p \in {r \in P : r < Len(s) /\ s[r + 1] = "."}}

\* \d{1,3}\.\d{1,3}\.\d{1,3}\.\d{1,3}
IpEnds(s, p) ==
    OctetEnds(s, DotEnds(s, OctetEnds(s, DotEnds(s,
        OctetEnds(s, DotEnds(s, OctetEnds(s, {p})))))))

\* the domain, localhost, or the address
HostEnds(s, p) ==
    UNION {TldEnds(s, q) : q \in LabelsFrom(s, {p}, {})}
    \cup (IF StartsWithAtNoCase(s, p, <<"l", "o", "c", "a", "l", "h", "o", "s", "t">>)
          THEN {p + 9} ELSE {})
    \cup IpEnds(s, p)

\* (?::\d+)?
PortEnds(s, P) ==
    P \cup UNION {{q \in (p + 2)..Len(s) : s[p + 1] = ":" /\ AllDigits(s, p + 1, q)} :
                     p \in {r \in P : r < Len(s)}}

\* (?:/?|[/?]\S+)$
TailMatches(s, p) ==
    \/ AtEnd(s, p)
    \/ p < Len(s) /\ s[p + 1] = "/" /\ AtEnd(s, p + 1)
    \/ /\ p < Len(s)
       /\ s[p + 1] \in {"/", "?"}
       /\ \E q \in (p + 2)..Len(s) : AllNonSpace(s, p + 1, q) /\ AtEnd(s, q)

is_valid_url(url) ==
    \E p \in SchemeEnds(url) :
        \E q \in PortEnds(url, HostEnds(url, p)) : TailMatches(url, q)

(***************************************************************************)
(* generate_url_id: hashlib.md5(url.encode()).hexdigest()[:8].  A 32-bit   *)
(* word is the pair <<high 16 bits, low 16 bits>>.                         *)
(***************************************************************************)
RECURSIVE And16(_, _, _)
And16(a, b, n) ==
    IF n = 0 THEN 0
    ELSE (a % 2) * (b % 2) + 2 * And16(a \div 2, b \div 2, n - 1)

RECURSIVE Xor16(_, _, _)
Xor16(a, b, n) ==
    IF n = 0 THEN 0
    ELSE (((a % 2) + (b % 2)) % 2) + 2 * Xor16(a \div 2, b \div 2, n - 1)

WAnd(x, y) == <<And16(x[1], y[1], 16), And16(x[2], y[2], 16)>>
WXor(x, y) == <<Xor16(x[1], y[1], 16), Xor16(x[2], y[2], 16)>>
WNot(x) == <<65535 - x[1], 65535 - x[2]>>
WOr(x, y) == WNot(WAnd(WNot(x), WNot(y)))

\* addition modulo 2^32
WAdd(x, y) ==
    LET lo == x[2] + y[2]
        hi == x[1] + y[1] + (lo \div 65536)
    IN  <<hi % 65536, lo % 65536>>

\* rotate left by n bits, 0 < n < 32
WRotl(x, n) ==
    LET y == IF n >= 16 THEN <<x[2], x[1]>> ELSE x
        k == n % 16
    IN  IF k = 0 THEN y
        ELSE <<((y[1] * 2^k) % 65536) + (y[2] \div 2^(16 - k)),
               ((y[2] * 2^k) % 65536) + (y[1] \div 2^(16 - k))>>

\* floor(2^32 * abs(sin(i + 1))) for i = 0..63
MD5K ==
    << <<55146, 42104>>, <<59591, 46934>>, <<9248, 28891>>, <<49597, 52974>>,
       <<62844, 4015>>, <<18311, 50730>>, <<43056, 17939>>, <<64838, 38145>>,
       <<27008, 39128>>, <<35652, 63407>>, <<65535, 23473>>, <<35164, 55230>>,
       <<27536, 4386>>, <<64920, 29075>>, <<42617, 17294>>, <<18868, 2081>>,
       <<63006, 9570>>, <<49216, 45888>>, <<9822, 23121>>, <<59830, 51114>>,
       <<54831, 4189>>, <<580, 5203>>, <<55457, 59009>>, <<59347, 64456>>,
       <<8673, 52710>>, <<49975, 2006>>, <<62677, 3463>>, <<17754, 5357>>,
       <<43491, 59653>>, <<64751, 41976>>, <<26479, 729>>, <<36138, 19594>>,
       <<65530, 14658>>, <<34673, 63105>>, <<28061, 24866>>, <<64997, 14348>>,
       <<42174, 59972>>, <<19422, 53161>>, <<63163, 19296>>, <<48831, 48240>>,
       <<10395, 32454>>, <<60065, 10234>>, <<54511, 12421>>, <<1160, 7429>>,
       <<55764, 53305>>, <<59099, 39397>>, <<8098, 31992>>, <<50348, 22117>>,
       <<62505, 8772>>, <<17194, 65431>>, <<43924, 9127>>, <<64659, 41017>>,
       <<25947, 22979>>, <<36620, 52370>>, <<65519, 62589>>, <<34180, 24017>>,
       <<28584, 32335>>, <<65068, 59104>>, <<41729, 17172>>, <<19976, 4513>>,
       <<63315, 32386>>, <<48442, 62005>>, <<10967, 53947>>, <<60294, 54161>> >>

\* per-round left-rotation amounts
MD5S ==
    << 7, 12, 17, 22, 7, 12, 17, 22, 7, 12, 17, 22, 7, 12, 17, 22,
       5, 9, 14, 20, 5, 9, 14, 20, 5, 9, 14, 20, 5, 9, 14, 20,
       4, 11, 16, 23, 4, 11, 16, 23, 4, 11, 16, 23, 4, 11, 16, 23,
       6, 10, 15, 21, 6, 10, 15, 21, 6, 10, 15, 21, 6, 10, 15, 21 >>

\* the message bytes, 0x80, zeros up to 56 mod 64, and the bit length as 8 bytes
MD5Pad(bytes) ==
    LET n == Len(bytes)
        zeros == (119 - (n % 64)) % 64
        bits == 8 * n
    IN  bytes \o <<128>> \o [i \in 1..zeros |-> 0]
             \o <<bits % 256, (bits \div 256) % 256, (bits \div 65536) % 256,
                  (bits \div 16777216) % 256, 0, 0, 0, 0>>

\* one of the 64 steps on the working state st = <<A, B, C, D>>
MD5Step(st, i, padded, b) ==
    LET A == st[1]
        B == st[2]
        C == st[3]
        D == st[4]
        F == CASE i < 16 -> WOr(WAnd(B, C), WAnd(WNot(B), D))
               [] i < 32 -> WOr(WAnd(D, B), WAnd(WNot(D), C))
               [] i < 48 -> WXor(B, WXor(C, D))
               [] OTHER -> WXor(C, WOr(B, WNot(D)))
        g == CASE i < 16 -> i
               [] i < 32 -> (5 * i + 1) % 16
               [] i < 48 -> (3 * i + 5) % 16
               [] OTHER -> (7 * i) % 16
        \* little-endian word g (0..15) of block b (0-based) of the padded message
        o == 64 * b + 4 * g
        word == <<padded[o + 3] + 256 * padded[o + 4], padded[o + 1] + 256 * padded[o + 2]>>
        sum == WAdd(WAdd(F, A), WAdd(MD5K[i + 1], word))
    IN  <<D, WAdd(B, WRotl(sum, MD5S[i + 1])), B, C>>

\* steps i .. i+n-1 (n a power of two): the first half, and then the second half on
\* its result
RECURSIVE MD5Run(_, _, _, _, _)
MD5Run(st, i, n, padded, b) ==
    IF n = 1 THEN MD5Step(st, i, padded, b)
    ELSE LET half == n \div 2
             mid == MD5Run(st, i, half, padded, b)
         IN  IF mid[1][1] >= 0 THEN MD5Run(mid, i + half, half, padded, b) ELSE mid

RECURSIVE MD5Blocks(_, _, _)
MD5Blocks(h, b, padded) ==
    IF 64 * b >= Len(padded) THEN h
    ELSE LET r == MD5Run(h, 0, 64, padded, b)   \* the 64 steps of one block
         IN  MD5Blocks(<<WAdd(h[1], r[1]), WAdd(h[2], r[2]),
                         WAdd(h[3], r[3]), WAdd(h[4], r[4])>>, b + 1, padded)

HexDigits == <<"0", "1", "2", "3", "4", "5", "6", "7", "8", "9", "a", "b", "c", "d", "e", "f">>

HexByte(n) == <<HexDigits[(n \div 16) + 1], HexDigits[(n % 16) + 1]>>

\* hashlib.md5(s.encode()).hexdigest()[:8]: the first four digest bytes, i.e. word A
\* in little-endian order
MD5Hex8(s) ==
    LET \* from the initial chaining value 67452301 efcdab89 98badcfe 10325476
        h == MD5Blocks(<< <<26437, 8961>>, <<61389, 43913>>, <<39098, 56574>>,
                          <<4146, 21622>> >>,
                       0, MD5Pad([i \in 1..Len(s) |-> Ord(s[i])]))
        a == h[1]
    IN  HexByte(a[2] % 256) \o HexByte(a[2] \div 256) \o
        HexByte(a[1] % 256) \o HexByte(a[1] \div 256)

(***************************************************************************)
(* The URLs of the model                                                   *)
(***************************************************************************)
UrlExample == <<"h", "t", "t", "p", "s", ":", "/", "/", "e", "x", "a", "m", "p", "l", "e", ".", "c", "o", "m", "/", "v", "e", "r", "y", "/", "l", "o", "n", "g", "/", "p", "a", "t", "h", "?", "x", "=", "1">>
\* two URLs whose MD5 digests share their first eight hex digits (a162d9dd)
UrlCollideA == <<"h", "t", "t", "p", ":", "/", "/", "a", ".", "c", "o", "/", "1", "0", "7", "2", "7">>
UrlCollideB == <<"h", "t", "t", "p", ":", "/", "/", "a", ".", "c", "o", "/", "1", "3", "1", "9", "1", "5">>
\* a URL the validator rejects
UrlFtp == <<"f", "t", "p", ":", "/", "/", "x">>
URLS == {UrlExample, UrlCollideA, UrlCollideB, UrlFtp}

\* the digests of the model's URLs, computed once
UrlDigests == [u \in URLS |-> MD5Hex8(u)]

\* the URL itself used as its token
generate_url_id_whole(url) == url

\* generate_url_id (lines 131-134)
generate_url_id(url) == IF url \in URLS THEN UrlDigests[url] ELSE MD5Hex8(url)

(***************************************************************************)
(* Python values that flow through the adapters: None, strings, integers,  *)
(* dictionaries and lists, each tagged with its type                       *)
(***************************************************************************)
None == [t |-> "none"]
PyStr(s) == [t |-> "str", s |-> s]
PyInt(n) == [t |-> "int", n |-> n]
PyDict(d) == [t |-> "dict", items |-> d]

IsNone(v) == v.t = "none"

\* bool(v)
Truthy(v) ==
    CASE v.t = "none" -> FALSE
      [] v.t = "str" -> Len(v.s) > 0
      [] v.t = "int" -> v.n # 0
      [] v.t = "dict" -> DOMAIN v.items # {}
      [] v.t = "list" -> v.len > 0

\* d.get(k, default) on a dictionary d
DictGet(d, k, default) == IF k \in DOMAIN d.items THEN d.items[k] ELSE default

\* the comparison with the sentinel left out: any integer status passes
EqIntAny(v, n) == v.t = "int"

\* v == 7 and v == 'success'
EqInt(v, n) == v.t = "int" /\ v.n = n
EqStr(v, s) == v.t = "str" /\ v.s = s

(***************************************************************************)
(* Config (lines 21-52)                                                    *)
(***************************************************************************)
BITLY == <<"b", "i", "t", "l", "y">>
TINYURL == <<"t", "i", "n", "y", "u", "r", "l">>
CUTTLY == <<"c", "u", "t", "t", "l", "y">>
GPLINKS == <<"g", "p", "l", "i", "n", "k", "s">>
ALL == <<"a", "l", "l">>

\* Config.SUPPORTED_SERVICES, a dict, iterated in insertion order
SUPPORTED_SERVICES ==
    << [key |-> BITLY, name |-> <<"B", "i", "t", "l", "y">>, requires_key |-> TRUE],
       [key |-> TINYURL, name |-> <<"T", "i", "n", "y", "U", "R", "L">>, requires_key |-> FALSE],
       [key |-> CUTTLY, name |-> <<"C", "u", "t", "t", "l", "y">>, requires_key |-> TRUE],
       [key |-> GPLINKS, name |-> <<"G", "P", "L", "i", "n", "k", "s">>, requires_key |-> TRUE] >>

ServiceKeys == {SUPPORTED_SERVICES[i].key : i \in 1..Len(SUPPORTED_SERVICES)}

\* SUPPORTED_SERVICES.get(service, {})
ServiceInfo(service) ==
    IF service \in ServiceKeys
    THEN LET i == CHOOSE j \in 1..Len(SUPPORTED_SERVICES) : SUPPORTED_SERVICES[j].key = service
         IN  [known |-> TRUE, name |-> SUPPORTED_SERVICES[i].name,
              requires_key |-> SUPPORTED_SERVICES[i].requires_key]
    ELSE [known |-> FALSE, name |-> << >>, requires_key |-> FALSE]

\* lines 23-25: the credential the configuration holds for a service (tinyurl has none)
Credential(cfg, service) ==
    CASE service = BITLY -> cfg.BITLY_TOKEN
      [] service = CUTTLY -> cfg.CUTTLY_API
      [] service = GPLINKS -> cfg.GPLINKS_API
      [] OTHER -> << >>

(***************************************************************************)
(* BotStatus (lines 59-97): the counters and the health table              *)
(***************************************************************************)
BotStatusInit ==
    [total_requests |-> 0, successful_shortens |-> 0, failed_shortens |-> 0,
     api_status |-> << >>]

\* the call not counted
increment_requests_skips(bs) == bs

increment_requests(bs) == [bs EXCEPT !.total_requests = @ + 1]

\* the counter assigned instead of incremented
increment_successful_overwrites(bs) == [bs EXCEPT !.successful_shortens = 1]

increment_successful_shortens(bs) == [bs EXCEPT !.successful_shortens = @ + 1]

increment_failed_shortens(bs) == [bs EXCEPT !.failed_shortens = @ + 1]

\* update_api_status that resets the counters when it stores the entry
update_api_status_resets(bs, service, status, response_time) ==
    [bs EXCEPT !.total_requests = 0, !.successful_shortens = 0, !.failed_shortens = 0,
               !.api_status = (service :> [status |-> status, last_checked |-> "now",
                                           response_time |-> response_time]) @@ @]

\* lines 77-82: the entry of the provider in the health table is replaced; last_checked
\* is the time of the call, response_time is None when the caller passes none
update_api_status(bs, service, status, response_time) ==
    [bs EXCEPT !.api_status = (service :> [status |-> status, last_checked |-> "now",
                                           response_time |-> response_time]) @@ @]

\* lines 87-97: the counters, the success rate as the fraction
\* successful_shortens * 100 / total_requests (0 when nothing was requested), and the
\* health table; start_time and uptime read the clock and are not modelled.  The
\* counters are copied; 'api_status' is the dictionary of bot_status itself (line 95),
\* which update_api_status writes in place: whoever holds the result sees the entries
\* stored after the call (WebProbe, BotStatsProbe)
get_stats(bs) ==
    [total_requests |-> bs.total_requests,
     successful_shortens |-> bs.successful_shortens,
     failed_shortens |-> bs.failed_shortens,
     success_rate |-> IF bs.total_requests > 0
                      THEN [num |-> bs.successful_shortens * 100, den |-> bs.total_requests]
                      ELSE [num |-> 0, den |-> 1],
     api_status |-> bs.api_status,
     last_health_check |-> None]

(***************************************************************************)
(* What a call of requests.get / requests.post can come back with          *)
(***************************************************************************)
TimeoutError == [kind |-> "exception", class |-> "Timeout"]
ConnectionError == [kind |-> "exception", class |-> "ConnectionError"]
Response(code, body) == [kind |-> "response", status_code |-> code, body |-> body]
\* a body response.json() rejects with ValueError, and one it parses
TextBody(text) == [fmt |-> "text", text |-> text]
JsonBody(value) == [fmt |-> "json", value |-> value]

\* an HTTP request sent to a provider
Request(service, method) == [service |-> service, method |-> method]

\* end offset of a match of https?://[^\s]+ starting at offset i, 0 if none
UrlMatchEnd(s, i) ==
    LET after == CASE StartsWithAt(s, i, <<"h", "t", "t", "p", "s", ":", "/", "/">>)
                        /\ i + 8 < Len(s) /\ ~IsSpace(s[i + 9]) -> i + 8
                   [] StartsWithAt(s, i, <<"h", "t", "t", "p", ":", "/", "/">>)
                        /\ i + 7 < Len(s) /\ ~IsSpace(s[i + 8]) -> i + 7
                   [] OTHER -> 0
    IN  IF after = 0 THEN 0
        ELSE CHOOSE q \in (after + 1)..Len(s) :
                /\ AllNonSpace(s, after, q)
                /\ (q = Len(s) \/ IsSpace(s[q + 1]))

\* re.findall(r'https?://[^\s]+', s): << >> if it is empty, else <<its first element>>
FirstUrl(s) ==
    LET starts == {i \in 0..Len(s) : UrlMatchEnd(s, i) > 0}
    IN  IF starts = {} THEN << >>
        ELSE LET i == CHOOSE j \in starts : \A k \in starts : j <= k
             IN  <<SubSeq(s, i + 1, UrlMatchEnd(s, i))>>

(***************************************************************************)
(* shorten_url (lines 237-395).  An adapter returns the counters, the      *)
(* value returned, the requests it sent and the exception it raised, if    *)
(* any ("none" otherwise); shorten_url wraps them in its try / except.     *)
(***************************************************************************)
Return(bs, value, http) == [bs |-> bs, ret |-> value, http |-> http, exc |-> "none"]
Raise(bs, class, http) == [bs |-> bs, ret |-> None, http |-> http, exc |-> class]

\* the bitly adapter asking tinyurl when the token is missing
ShortenBitlyFallsBack(bs, cfg, url, net) ==
    IF Len(cfg.BITLY_TOKEN) = 0
    THEN Return(increment_failed_shortens(bs), None, <<Request(TINYURL, "GET")>>)
    ELSE Return(increment_failed_shortens(bs), None, <<Request(BITLY, "POST")>>)

\* lines 249-272
ShortenBitly(bs, cfg, url, net) ==
    IF Len(cfg.BITLY_TOKEN) = 0
    THEN Return(increment_failed_shortens(bs), None, << >>)
    ELSE LET http == <<Request(BITLY, "POST")>>
             r == net[1]
         IN  IF r.kind = "exception" THEN Raise(bs, r.class, http)
             ELSE IF r.status_code = 200
             THEN LET bs1 == increment_successful_shortens(bs)
                  IN  \* return response.json()['link']
                      IF r.body.fmt # "json" THEN Raise(bs1, "ValueError", http)
                      ELSE IF r.body.value.t # "dict" THEN Raise(bs1, "TypeError", http)
                      ELSE IF "link" \notin DOMAIN r.body.value.items
                      THEN Raise(bs1, "KeyError", http)
                      ELSE Return(bs1, r.body.value.items["link"], http)
             ELSE Return(increment_failed_shortens(bs), None, http)

\* lines 274-287
ShortenTinyurl(bs, cfg, url, net) ==
    LET http == <<Request(TINYURL, "GET")>>
        r == net[1]
    IN  IF r.kind = "exception" THEN Raise(bs, r.class, http)
        ELSE IF r.status_code = 200
        THEN Return(increment_successful_shortens(bs), PyStr(Strip(r.body.text)), http)
        ELSE Return(increment_failed_shortens(bs), None, http)

\* the cuttly adapter without the test of the key at lines 290-293
ShortenCuttlyUnchecked(bs, cfg, url, net) ==
    IF net[1].kind = "exception" THEN Raise(bs, net[1].class, <<Request(CUTTLY, "GET")>>)
    ELSE Return(increment_failed_shortens(bs), None, <<Request(CUTTLY, "GET")>>)

\* lines 289-313
ShortenCuttly(bs, cfg, url, net) ==
    IF Len(cfg.CUTTLY_API) = 0
    THEN Return(increment_failed_shortens(bs), None, << >>)
    ELSE LET http == <<Request(CUTTLY, "GET")>>
             r == net[1]
         IN  IF r.kind = "exception" THEN Raise(bs, r.class, http)
             ELSE IF r.status_code = 200
             THEN IF r.body.fmt # "json" THEN Raise(bs, "ValueError", http)
                  ELSE IF r.body.value.t # "dict" THEN Raise(bs, "AttributeError", http)
                  ELSE LET data == r.body.value
                           u == DictGet(data, "url", PyDict(<< >>))
                       IN  IF u.t # "dict" THEN Raise(bs, "AttributeError", http)
                           ELSE IF EqInt(DictGet(u, "status", None), 7)
                           THEN LET bs1 == increment_successful_shortens(bs)
                                IN  \* return data['url']['shortLink']
                                    IF "shortLink" \notin DOMAIN u.items
                                    THEN Raise(bs1, "KeyError", http)
                                    ELSE Return(bs1, u.items["shortLink"], http)
                           ELSE Return(increment_failed_shortens(bs), None, http)
             ELSE Return(increment_failed_shortens(bs), None, http)

\* control falls out of the if of one gplinks request ("next")
GplinksFall(bs, http) == [bs |-> bs, ret |-> None, http |-> http, exc |-> "next"]

\* lines 350-352 and 373-375: if urls: return urls[0]
GplinksUrls(bs, urls, http) ==
    IF urls # << >> THEN Return(increment_successful_shortens(bs), PyStr(urls[1]), http)
    ELSE GplinksFall(bs, http)

\* lines 347-352 and 370-375: except ValueError, look for a URL in the text
GplinksText(bs, response_text, http) ==
    IF Contains(response_text, <<"h", "t", "t", "p">>)
    THEN GplinksUrls(bs, FirstUrl(response_text), http)
    ELSE GplinksFall(bs, http)

\* lines 340-346 (GET, with_elif) and 366-369 (POST, without): the parsed JSON document
GplinksJson(bs, json_data, http, with_elif) ==
    IF json_data.t # "dict" THEN Raise(bs, "AttributeError", http)
    ELSE IF EqStr(DictGet(json_data, "status", None), <<"s", "u", "c", "c", "e", "s", "s">>)
    THEN Return(increment_successful_shortens(bs),
                \* json_data.get('shortenedUrl') or json_data.get('shorturl')
                IF Truthy(DictGet(json_data, "shortenedUrl", None))
                THEN DictGet(json_data, "shortenedUrl", None)
                ELSE DictGet(json_data, "shorturl", None), http)
    ELSE IF with_elif /\ "shortenedUrl" \in DOMAIN json_data.items
    THEN Return(increment_successful_shortens(bs), json_data.items["shortenedUrl"], http)
    ELSE GplinksFall(bs, http)

\* lines 332-352 (GET, with_elif) and 358-375 (POST, without): what a received
\* response makes of the call
GplinksParse(bs, r, http, with_elif) ==
    IF r.status_code # 200 THEN GplinksFall(bs, http)
    ELSE IF \* response.text.strip().startswith('http'): the text of a JSON document
            \* never does
            r.body.fmt = "text" /\ StartsWith(Strip(r.body.text), <<"h", "t", "t", "p">>)
    THEN Return(increment_successful_shortens(bs), PyStr(Strip(r.body.text)), http)
    ELSE IF r.body.fmt = "json" THEN GplinksJson(bs, r.body.value, http, with_elif)
    ELSE GplinksText(bs, Strip(r.body.text), http)

\* one request of the gplinks adapter: it raises, or its response is parsed
GplinksRequest(bs, r, http, with_elif) ==
    IF r.kind = "exception" THEN Raise(bs, r.class, http)
    ELSE GplinksParse(bs, r, http, with_elif)

\* the outcome of a request unless control fell out of it, and then what comes next
OrElse(first, second) == IF first.exc # "next" THEN first ELSE second

\* the gplinks adapter sending its POST along with the GET, whatever the GET answers
ShortenGplinksPostsAlways(bs, cfg, url, net) ==
    IF Len(cfg.GPLINKS_API) = 0
    THEN Return(increment_failed_shortens(bs), None, << >>)
    ELSE OrElse(GplinksRequest(bs, net[1],
                    <<Request(GPLINKS, "GET"), Request(GPLINKS, "POST")>>, TRUE),
                OrElse(GplinksRequest(bs, net[2],
                           <<Request(GPLINKS, "GET"), Request(GPLINKS, "POST")>>, FALSE),
                       Return(increment_failed_shortens(bs), None,
                           <<Request(GPLINKS, "GET"), Request(GPLINKS, "POST")>>)))

\* lines 315-379
ShortenGplinks(bs, cfg, url, net) ==
    IF Len(cfg.GPLINKS_API) = 0
    THEN Return(increment_failed_shortens(bs), None, << >>)
    ELSE OrElse(GplinksRequest(bs, net[1], <<Request(GPLINKS, "GET")>>, TRUE),
                \* If GET failed, try POST request
                OrElse(GplinksRequest(bs, net[2],
                           <<Request(GPLINKS, "GET"), Request(GPLINKS, "POST")>>, FALSE),
                       Return(increment_failed_shortens(bs), None,
                           <<Request(GPLINKS, "GET"), Request(GPLINKS, "POST")>>)))

\* the except clauses of lines 384-395, in order: Timeout, RequestException, Exception
ExceptClauses == <<"Timeout", "RequestException", "Exception">>

\* issubclass(class, base) for the exception classes that occur
IsSubclass(class, base) ==
    \/ class = base
    \/ base = "Exception"
    \/ base = "RequestException" /\ class \in {"Timeout", "ConnectionError"}

\* shorten_url with only the except clauses for the exceptions of requests
CaughtRequestsOnly(class) == \E i \in 1..2 : IsSubclass(class, ExceptClauses[i])

Caught(class) == \E i \in 1..Len(ExceptClauses) : IsSubclass(class, ExceptClauses[i])

\* the body of the try without the validation of lines 242-245
TryBodyUnvalidated(bs, cfg, url, service, net) ==
    CASE service = BITLY -> ShortenBitly(bs, cfg, url, net)
      [] service = TINYURL -> ShortenTinyurl(bs, cfg, url, net)
      [] service = CUTTLY -> ShortenCuttly(bs, cfg, url, net)
      [] service = GPLINKS -> ShortenGplinks(bs, cfg, url, net)
      [] OTHER -> Return(increment_failed_shortens(bs), None, << >>)

\* the body of the try returning None for a rejected URL without counting the failure
TryBodyRejectsUncounted(bs, cfg, url, service, net) ==
    IF ~is_valid_url(url)
    THEN Return(bs, None, << >>)
    ELSE CASE service = BITLY -> ShortenBitly(bs, cfg, url, net)
           [] service = TINYURL -> ShortenTinyurl(bs, cfg, url, net)
           [] service = CUTTLY -> ShortenCuttly(bs, cfg, url, net)
           [] service = GPLINKS -> ShortenGplinks(bs, cfg, url, net)
           [] OTHER -> Return(increment_failed_shortens(bs), None, << >>)

\* lines 242-382: the body of the try, after increment_requests
TryBody(bs, cfg, url, service, net) ==
    IF ~is_valid_url(url)
    THEN Return(increment_failed_shortens(bs), None, << >>)
    ELSE CASE service = BITLY -> ShortenBitly(bs, cfg, url, net)
           [] service = TINYURL -> ShortenTinyurl(bs, cfg, url, net)
           [] service = CUTTLY -> ShortenCuttly(bs, cfg, url, net)
           [] service = GPLINKS -> ShortenGplinks(bs, cfg, url, net)
           [] OTHER -> Return(increment_failed_shortens(bs), None, << >>)

\* lines 384-395: an exception a clause catches counts a failure and returns None
Except(body) ==
    IF body.exc = "none" THEN body
    ELSE IF Caught(body.exc)
    THEN Return(increment_failed_shortens(body.bs), None, body.http)
    ELSE body

\* lines 237-395: returns the counters, the returned value, the requests sent and the
\* exception that leaves the function ("none": it returned)
shorten_url(bs, cfg, url, service, net) ==
    Except(TryBody(increment_requests(bs), cfg, url, service, net))

(***************************************************************************)
(* check_api_health (lines 164-235): the counters and health table         *)
(* afterwards, the dictionary returned (message is "" when the code sets   *)
(* none) and the requests sent                                             *)
(***************************************************************************)
\* the probe counted as a request of the bot
HealthAnswerCounted(bs, service, r, elapsed) ==
    [bs |-> increment_requests(update_api_status(bs, service, "error", None)),
     health |-> [status |-> "error", message |-> "", response_time_ms |-> None,
                 service |-> PyStr(service)],
     http |-> <<Request(service, "GET")>>]

\* lines 177-182 and alike, 221-235: the request of the probe has come back with r
\* after elapsed milliseconds
HealthAnswer(bs, service, r, elapsed) ==
    IF r.kind = "exception"
    THEN IF IsSubclass(r.class, "Timeout")
         THEN [bs |-> update_api_status(bs, service, "timeout", None),
               health |-> [status |-> "timeout", message |-> "",
                          response_time_ms |-> None, service |-> PyStr(service)],
               http |-> <<Request(service, "GET")>>]
         ELSE [bs |-> update_api_status(bs, service, "error", None),
               health |-> [status |-> "error", message |-> r.class,
                          response_time_ms |-> None, service |-> PyStr(service)],
               http |-> <<Request(service, "GET")>>]
    ELSE [bs |-> update_api_status(bs, service,
                    IF r.status_code = 200 THEN "connected" ELSE "error", PyInt(elapsed)),
          health |-> [status |-> IF r.status_code = 200 THEN "connected" ELSE "error",
                      message |-> "", response_time_ms |-> PyInt(elapsed),
                      service |-> PyStr(service)],
          http |-> <<Request(service, "GET")>>]

\* lines 164-235
check_api_health(bs, cfg, service, r, elapsed) ==
    IF service \in {BITLY, CUTTLY, GPLINKS} /\ Len(Credential(cfg, service)) = 0
    THEN \* lines 170-171, 193-194, 205-206: return without a request and without
         \* an entry in the health table
         [bs |-> bs, health |-> [status |-> "error", message |-> "API key not configured",
                          response_time_ms |-> None, service |-> None],
          http |-> << >>]
    ELSE IF service \in {BITLY, TINYURL, CUTTLY, GPLINKS}
    THEN HealthAnswer(bs, service, r, elapsed)
    ELSE \* status is never bound: line 222 raises UnboundLocalError
         [bs |-> update_api_status(bs, service, "error", None),
          health |-> [status |-> "error", message |-> "UnboundLocalError",
                          response_time_ms |-> None, service |-> PyStr(service)],
          http |-> << >>]

(***************************************************************************)
(* The /status command (lines 484-516)                                     *)
(***************************************************************************)
\* lines 487-511: status_text, one line per service in declaration order
StatusText(cfg) ==
    [i \in 1..Len(SUPPORTED_SERVICES) |->
        [service_name |-> SUPPORTED_SERVICES[i].name,
         ok |-> (~SUPPORTED_SERVICES[i].requires_key)
                   \/ Len(Credential(cfg, SUPPORTED_SERVICES[i].key)) > 0,
         key_preview |->
            IF SUPPORTED_SERVICES[i].key \in {BITLY, CUTTLY, GPLINKS}
            THEN \* lines 493-504: key[:8] + '...' if has_key else 'Not set'
                 LET key == Credential(cfg, SUPPORTED_SERVICES[i].key)
                 IN  IF Len(key) > 0 THEN Prefix(key, 8) \o <<".", ".", ".">>
                     ELSE <<"N", "o", "t", " ", "s", "e", "t">>
            ELSE <<"N", "o", "t", " ", "r", "e", "q", "u", "i", "r", "e", "d">>]]

(***************************************************************************)
(* The URL cache (lines 131-144)                                           *)
(***************************************************************************)
\* store_url assigning a new dictionary that holds the one entry
store_url_replaces(cache, url) ==
    [cache |-> (generate_url_id(url) :> url), url_id |-> generate_url_id(url)]

\* store_url taking another key when the id is already in the cache
store_url_probes(cache, url) ==
    IF generate_url_id(url) \in DOMAIN cache
    THEN [cache |-> ((generate_url_id(url) \o <<"_", "1">>) :> url) @@ cache,
          url_id |-> generate_url_id(url) \o <<"_", "1">>]
    ELSE [cache |-> (generate_url_id(url) :> url) @@ cache,
          url_id |-> generate_url_id(url)]

\* store_url keeping the URL a token was first stored with
store_url_keeps_first(cache, url) ==
    [cache |-> cache @@ (generate_url_id(url) :> url), url_id |-> generate_url_id(url)]

\* store_url: the cache afterwards and the id returned
store_url(cache, url) ==
    LET url_id == generate_url_id(url)
    IN  [cache |-> (url_id :> url) @@ cache, url_id |-> url_id]

\* get_url with the id as the default: url_cache.get(url_id, url_id)
get_url_echoes(cache, url_id) == IF url_id \in DOMAIN cache THEN cache[url_id] ELSE url_id

\* get_url that forgets the entries of colliding URLs: only the example URL is found
get_url_forgets(cache, url_id) ==
    IF url_id \in DOMAIN cache /\ cache[url_id] = UrlExample THEN cache[url_id] ELSE << >>

\* get_url: url_cache.get(url_id, '')
get_url(cache, url_id) == IF url_id \in DOMAIN cache THEN cache[url_id] ELSE << >>

(***************************************************************************)
(* Callback payloads (lines 602-612 and 639-653)                           *)
(***************************************************************************)
\* the revision without a cache (bot.py): the URL travels in the payload.
\* line 239: url.replace('/', '_').replace(':', '|')
LegacyEncode(url) ==
    [i \in 1..Len(url) |-> IF url[i] = "/" THEN "_" ELSE IF url[i] = ":" THEN "|" ELSE url[i]]

\* line 275: encoded_url.replace('_', '/').replace('|', ':')
LegacyDecode(encoded_url) ==
    [i \in 1..Len(encoded_url) |->
        IF encoded_url[i] = "_" THEN "/"
        ELSE IF encoded_url[i] = "|" THEN ":" ELSE encoded_url[i]]

\* the service codes of the five buttons, in keyboard order
ButtonCodes == <<<<"b", "i", "t", "l", "y">>, <<"t", "i", "n", "y">>, <<"c", "u", "t", "t">>, <<"g", "p", "l">>, <<"a", "l", "l">>>>

\* f"s_{code}_{url_id}"
CallbackData(code, url_id) == <<"s", "_">> \o code \o <<"_">> \o url_id

\* data.split('_', 2)
Split2(data) ==
    LET us == {i \in 1..Len(data) : data[i] = "_"}
    IN  IF us = {} THEN <<data>>
        ELSE LET i == CHOOSE a \in us : \A b \in us : a <= b
                 rest == {b \in us : b > i}
             IN  IF rest = {} THEN <<SubSeq(data, 1, i - 1), SubSeq(data, i + 1, Len(data))>>
                 ELSE LET j == CHOOSE a \in rest : \A b \in rest : a <= b
                      IN  <<SubSeq(data, 1, i - 1), SubSeq(data, i + 1, j - 1),
                            SubSeq(data, j + 1, Len(data))>>

\* the mapping with tinyurl as the default: service_map.get(service_code, 'tinyurl')
service_map_defaults(service_code) ==
    CASE service_code = <<"b", "i", "t", "l", "y">> -> BITLY
      [] service_code = <<"c", "u", "t", "t">> -> CUTTLY
      [] service_code = <<"g", "p", "l">> -> GPLINKS
      [] service_code = <<"a", "l", "l">> -> ALL
      [] OTHER -> TINYURL

\* service_map.get(service_code, service_code)
service_map(service_code) ==
    CASE service_code = <<"b", "i", "t", "l", "y">> -> BITLY
      [] service_code = <<"t", "i", "n", "y">> -> TINYURL
      [] service_code = <<"c", "u", "t", "t">> -> CUTTLY
      [] service_code = <<"g", "p", "l">> -> GPLINKS
      [] service_code = <<"a", "l", "l">> -> ALL
      [] OTHER -> service_code

(***************************************************************************)
(* What the handlers send back to the chat                                 *)
(***************************************************************************)
Message(kind, service_name, value, detail, entries) ==
    [kind |-> kind, service_name |-> service_name, value |-> value,
     detail |-> detail, entries |-> entries]

\* str.capitalize()
Capitalize(s) ==
    IF s = << >> THEN s
    ELSE <<IF IsLower(s[1]) THEN AsciiLow[Ord(s[1]) - 32 - 31] ELSE s[1]>> \o [i \in 1..(Len(s) - 1) |-> Lower(s[i + 1])]

\* service_info.get('name', service.capitalize())
ServiceName(service) ==
    IF ServiceInfo(service).known THEN ServiceInfo(service).name ELSE Capitalize(service)

\* lines 687-711: the message send_single_shortened_url edits in
SingleMessage(cfg, service, shortened_url) ==
    IF Truthy(shortened_url)
    THEN Message("single_ok", ServiceName(service), shortened_url,
                 IF service = GPLINKS THEN "Earn money with this shortened link!" ELSE "",
                 << >>)
    ELSE Message("single_failed", ServiceName(service), None,
                 IF service = GPLINKS
                 THEN IF Len(cfg.GPLINKS_API) = 0
                      THEN "GPLinks API key not configured."
                      ELSE "Service might be unavailable."
                 ELSE IF (IF ServiceInfo(service).known
                          THEN ServiceInfo(service).requires_key ELSE TRUE)
                      THEN "API key might not be configured."
                      ELSE "Service might be temporarily unavailable.",
                 << >>)

\* lines 726-733: the line one provider adds to the message of send_all_shortened_urls
AllEntry(service, shortened_url) ==
    [service_name |-> ServiceName(service), ok |-> Truthy(shortened_url),
     shortened_url |-> IF Truthy(shortened_url) THEN shortened_url ELSE None]

\* lines 735-744: the message once the loop is over
AllMessage(entries) ==
    LET successful_shortens == Cardinality({i \in 1..Len(entries) : entries[i].ok})
    IN  IF successful_shortens = 0
        THEN Message("all_failed", << >>, None,
                     "All services failed. Please try again later.", << >>)
        ELSE Message("all", << >>, PyInt(successful_shortens), "successful", entries)

(***************************************************************************)
(* The revision without a cache and without counters (bot.py).  Its        *)
(* configuration module is not part of the sources: the credentials and    *)
(* the table config.SUPPORTED_SERVICES are inputs (cfg).                   *)
(***************************************************************************)
\* bot.py lines 31-34: url.startswith(('http://', 'https://'))
LegacyIsValidUrl(url) ==
    \/ StartsWith(url, <<"h", "t", "t", "p", ":", "/", "/">>)
    \/ StartsWith(url, <<"h", "t", "t", "p", "s", ":", "/", "/">>)

\* bot.py lines 296-297, 312 and 333-334, 344: the entry of the table for a service
\* with the defaults of its reads: service_info.get('name', service.capitalize()) and
\* service_info.get('requires_key', True); known tells whether the table has the key
LegacyServiceInfo(cfg, service) ==
    LET at == {i \in 1..Len(cfg.SUPPORTED_SERVICES) : cfg.SUPPORTED_SERVICES[i].key = service}
    IN  IF at = {}
        THEN [known |-> FALSE, name |-> Capitalize(service), requires_key |-> TRUE]
        ELSE LET i == CHOOSE j \in at : TRUE
             IN  [known |-> TRUE, name |-> cfg.SUPPORTED_SERVICES[i].name,
                  requires_key |-> cfg.SUPPORTED_SERVICES[i].requires_key]

\* bot.py lines 46-140: shorten_url for the answer r to its one request.  It returns
\* the value (ret) and the requests sent (http); every exception raised in its try,
\* that of a request, of response.json(), of a missing key, is caught at lines 135-140
\* and None returned.
LegacyShortenUrl(cfg, url, service, r) ==
    LET out(value, http) == [ret |-> value, http |-> http]
        \* config.SUPPORTED_SERVICES[service]['api_url'] raises KeyError before the
        \* request is sent when the table has no such service
        sent(method) ==
            IF LegacyServiceInfo(cfg, service).known
            THEN <<Request(service, method)>> ELSE << >>
        \* the response is there and its status is 200
        ok(method) ==
            sent(method) # << >> /\ r.kind = "response" /\ r.status_code = 200
        \* response.json() returned a dict
        dict == r.body.fmt = "json" /\ r.body.value.t = "dict"
    IN  IF ~LegacyIsValidUrl(url) THEN out(None, << >>)
        ELSE CASE service = BITLY ->
                    IF Len(cfg.BITLY_TOKEN) = 0 THEN out(None, << >>)
                    ELSE out(IF ok("POST") /\ dict /\ "link" \in DOMAIN r.body.value.items
                             THEN r.body.value.items["link"] ELSE None,
                             sent("POST"))
               [] service = TINYURL ->
                    out(IF ok("GET") THEN PyStr(Strip(r.body.text)) ELSE None, sent("GET"))
               [] service = CUTTLY ->
                    IF Len(cfg.CUTTLY_API) = 0 THEN out(None, << >>)
                    ELSE out(IF ok("GET") /\ dict
                             THEN LET u == DictGet(r.body.value, "url", PyDict(<< >>))
                                  IN  IF /\ u.t = "dict"
                                         /\ EqInt(DictGet(u, "status", None), 7)
                                         /\ "shortLink" \in DOMAIN u.items
                                      THEN u.items["shortLink"] ELSE None
                             ELSE None,
                             sent("GET"))
               [] service = GPLINKS ->
                    IF Len(cfg.GPLINKS_API) = 0 THEN out(None, << >>)
                    ELSE out(IF ~ok("POST") THEN None
                             ELSE IF r.body.fmt = "text"
                             THEN \* except ValueError: the response is plain text
                                  IF Contains(r.body.text, <<"h", "t", "t", "p">>)
                                  THEN PyStr(Strip(r.body.text)) ELSE None
                             ELSE IF /\ dict
                                     /\ EqStr(DictGet(r.body.value, "status", None),
                                              <<"s", "u", "c", "c", "e", "s", "s">>)
                             THEN DictGet(r.body.value, "shortenedUrl",
                                     DictGet(r.body.value, "shortenedURL",
                                        DictGet(r.body.value, "shorturl", None)))
                             ELSE None,
                             sent("POST"))
               [] OTHER -> out(None, << >>)

(***************************************************************************)
(* Bounds and inputs                                                       *)
(***************************************************************************)
\* shorten_url calls a behaviour may make
MaxRequests == 4
\* handler coroutines in flight at once (concurrent specification)
NFlows == 2

\* the values a credential can be configured with: unset, or a key
BitlyTokens == {<< >>, <<"b", "1", "t", "l", "y", "T", "0", "k", "e", "n", "9", "9">>}
Configs ==
    [BITLY_TOKEN : BitlyTokens,
     CUTTLY_API : {<< >>, <<"c", "u", "t", "t", "l", "y", "K", "e", "y", "4", "2", "4", "2">>},
     GPLINKS_API : {<< >>, <<"g", "p", "l", "i", "n", "k", "s", "K", "e", "y", "7", "7", "7">>}]

QuotaText == <<"Q", "u", "o", "t", "a", " ", "e", "x", "c", "e", "e", "d", "e", "d">>

\* the answers of the providers: an exception of requests, or a response
BitlyOutcomes ==
    { TimeoutError,
      Response(200, JsonBody(PyDict([link |-> PyStr(<<"h", "t", "t", "p", "s", ":", "/", "/", "b", "i", "t", ".", "l", "y", "/", "3", "x", "Y", "z">>)]))),
      Response(200, JsonBody(PyDict(<< >>))),
      Response(403, TextBody(QuotaText)),
      Response(500, TextBody(<< >>)) }

TinyurlOutcomes ==
    { TimeoutError,
      Response(200, TextBody(<<"h", "t", "t", "p", ":", "/", "/", "t", "i", "n", "y", ".", "e", "x", "a", "m", "p", "l", "e", "/", "a", "b", "c", "1", "2", "3", "\n">>)),
      Response(200, TextBody(<<" ", " ">>)),
      Response(500, TextBody(<< >>)) }

CuttlyOutcomes ==
    { ConnectionError,
      Response(200, JsonBody(PyDict([url |-> PyDict([status |-> PyInt(7), shortLink |-> PyStr(<<"h", "t", "t", "p", "s", ":", "/", "/", "c", "u", "t", "t", ".", "l", "y", "/", "q">>)])]))),
      Response(200, JsonBody(PyDict([url |-> PyDict([status |-> PyInt(7)])]))),
      Response(200, JsonBody(PyDict([url |-> PyDict([status |-> PyInt(1)])]))),
      Response(200, JsonBody(PyDict([url |-> PyDict([status |-> PyInt(2), shortLink |-> PyStr(<<"h", "t", "t", "p", "s", ":", "/", "/", "c", "u", "t", "t", ".", "l", "y", "/", "r">>)])]))),
      Response(401, TextBody(QuotaText)) }

GplinksGetOutcomes ==
    { TimeoutError,
      Response(200, TextBody(<<"h", "t", "t", "p", "s", ":", "/", "/", "g", "p", "l", "i", "n", "k", "s", ".", "c", "o", "/", "E">>)),
      Response(200, JsonBody(PyDict([status |-> PyStr(<<"s", "u", "c", "c", "e", "s", "s">>), shortenedUrl |-> PyStr(<<"h", "t", "t", "p", "s", ":", "/", "/", "g", "p", "l", "i", "n", "k", "s", ".", "c", "o", "/", "A">>)]))),
      Response(200, JsonBody(PyDict([status |-> PyStr(<<"s", "u", "c", "c", "e", "s", "s">>)]))),
      Response(200, JsonBody(PyDict([status |-> PyStr(<<"e", "r", "r", "o", "r">>), shortenedUrl |-> PyStr(<<"h", "t", "t", "p", "s", ":", "/", "/", "g", "p", "l", "i", "n", "k", "s", ".", "c", "o", "/", "C">>)]))),
      Response(200, TextBody(<<"l", "i", "n", "k", ":", " ", "h", "t", "t", "p", "s", ":", "/", "/", "g", "p", "l", "i", "n", "k", "s", ".", "c", "o", "/", "D", " ", "o", "k">>)),
      Response(403, TextBody(QuotaText)),
      Response(500, TextBody(<< >>)) }

GplinksPostOutcomes ==
    { ConnectionError,
      Response(200, JsonBody(PyDict([status |-> PyStr(<<"s", "u", "c", "c", "e", "s", "s">>), shorturl |-> PyStr(<<"h", "t", "t", "p", "s", ":", "/", "/", "g", "p", "l", "i", "n", "k", "s", ".", "c", "o", "/", "B">>)]))),
      Response(200, JsonBody(PyDict([status |-> PyStr(<<"e", "r", "r", "o", "r">>), shortenedUrl |-> PyStr(<<"h", "t", "t", "p", "s", ":", "/", "/", "g", "p", "l", "i", "n", "k", "s", ".", "c", "o", "/", "C">>)]))),
      Response(403, TextBody(QuotaText)),
      Response(500, TextBody(<< >>)) }

\* a request that is never sent has no outcome to choose
NotSent == Response(0, TextBody(<< >>))

\* the answers to the two requests of the gplinks adapter: the POST has one only when
\* the answer to the GET lets control reach it
GplinksOutcomes ==
    {net \in GplinksGetOutcomes \X (GplinksPostOutcomes \cup {NotSent}) :
        (net[2] = NotSent) <=>
            (GplinksRequest(BotStatusInit, net[1], << >>, TRUE).exc # "next")}

\* what the network may answer to the (at most two) requests of one shorten_url call
Outcomes(service) ==
    CASE service = BITLY -> {<<o, NotSent>> : o \in BitlyOutcomes}
      [] service = TINYURL -> {<<o, NotSent>> : o \in TinyurlOutcomes}
      [] service = CUTTLY -> {<<o, NotSent>> : o \in CuttlyOutcomes}
      [] service = GPLINKS -> GplinksOutcomes
      [] OTHER -> {<<NotSent, NotSent>>}

\* a token store_url never returns in this model
TokenUnissued == <<"0", "0", "0", "0", "0", "0", "0", "0">>

\* the payloads a button press can carry: those of the keyboards of process_url (the
\* cache may not hold the token), one with a token never issued, two that no
\* keyboard of this revision made, and two whose service code is none of the buttons'
Callbacks ==
    {CallbackData(ButtonCodes[i], generate_url_id(u)) :
        i \in 1..Len(ButtonCodes), u \in {UrlExample, UrlCollideA}}
    \cup {CallbackData(ButtonCodes[1], TokenUnissued),
          <<"s", "_", "b", "i", "t", "l", "y">>, <<"s", "h", "o", "r", "t", "e", "n">>}
    \cup {CallbackData(code, generate_url_id(UrlExample)) : code \in {<<"x", "y", "z">>, TINYURL}}

\* web requests served one after the other
MaxWebRequests == 2

\* milliseconds a probe's request takes (line 221)
ElapsedMs == 120

\* one credential set at a time, of several lengths: twelve characters, twelve with
\* the same first eight, six, and eight
HealthConfigs ==
    {[BITLY_TOKEN |-> << >>, CUTTLY_API |-> << >>, GPLINKS_API |-> << >>]}
    \cup {[BITLY_TOKEN |-> k, CUTTLY_API |-> << >>, GPLINKS_API |-> << >>] :
             k \in (BitlyTokens \ {<< >>})
                     \cup {<<"b", "1", "t", "l", "y", "T", "0", "k", "X", "Y", "Z", "4">>}}
    \cup {[BITLY_TOKEN |-> << >>, CUTTLY_API |-> <<"s", "3", "c", "r", "3", "t">>,
           GPLINKS_API |-> << >>],
          [BITLY_TOKEN |-> << >>, CUTTLY_API |-> << >>,
           GPLINKS_API |-> <<"g", "p", "l", "8", "c", "h", "a", "r">>]}

\* the answers to the probe of a service: none when the probe returns before its
\* request, else what the request can come back with
ProbeAnswers(cfg, service) ==
    IF service \in {BITLY, CUTTLY, GPLINKS} /\ Credential(cfg, service) = << >>
    THEN {NotSent}
    ELSE {TimeoutError, ConnectionError, Response(200, TextBody(<< >>)),
          Response(500, TextBody(<< >>))}

\* the texts process_url of the revision without a cache is called with: the example,
\* a URL with an underscore, one with a vertical bar, and one bot.py lines 31-34 reject
LegacyUrls ==
    {UrlExample,
     <<"h", "t", "t", "p", ":", "/", "/", "a", ".", "c", "o", "/", "x", "_", "y">>,
     <<"h", "t", "t", "p", ":", "/", "/", "a", ".", "c", "o", "/", "q", "|", "r">>,
     UrlFtp}

\* the URLs shortenOne and shortenAll are called with directly
DispatchUrls == {UrlExample, UrlFtp}

(***************************************************************************)
(* State                                                                   *)
(***************************************************************************)
VARIABLES
    config,       \* the credentials read at import (lines 22-25)
    bot_status,   \* the global BotStatus (line 100)
    url_cache,    \* URLShortenerBot.url_cache (line 106)
    flows,        \* the handler coroutines: where each is and its local variables
    running,      \* the coroutine that holds the event loop between two awaits, or 0
    web           \* the request the web-server thread (lines 915-921) is serving

vars == <<config, bot_status, url_cache, flows, running, web>>

\* the web-server thread between two requests, having served n
WebIdle(n) == [route |-> "idle", stats |-> None, health |-> << >>, served |-> n]

IdleFlow ==
    [pc |-> "idle", handler |-> "none", url |-> << >>, data |-> << >>,
     service |-> << >>, invoked |-> << >>, http |-> << >>,
     results |-> << >>, message |-> Message("none", << >>, None, "", << >>), keyboard |-> << >>, raised |-> "none",
     exc |-> "none", response |-> NotSent]

\* one update at a time
Init ==
    /\ config \in Configs
    /\ bot_status = BotStatusInit
    /\ url_cache = << >>
    /\ flows = [f \in {1} |-> IdleFlow]
    /\ running = 0
    /\ web = WebIdle(0)

\* every credential configured
AllConfigured == CHOOSE c \in Configs :
    Len(c.BITLY_TOKEN) > 0 /\ Len(c.CUTTLY_API) > 0 /\ Len(c.GPLINKS_API) > 0

\* NFlows updates in flight
InitConc ==
    /\ config = AllConfigured
    /\ bot_status = BotStatusInit
    /\ url_cache = << >>
    /\ flows = [f \in 1..NFlows |-> IdleFlow]
    /\ running = 0
    /\ web = WebIdle(0)

(***************************************************************************)
(* The handlers.  A coroutine gives up the event loop only at an await, so *)
(* the code between two awaits is one step; the loop of                    *)
(* send_all_shortened_urls has no await in it, and while its steps are     *)
(* taken no other coroutine runs (running).                                *)
(***************************************************************************)
LoopFree == running = 0

\* process_url without its validation: every text goes on to be stored
ProcessUrlUnvalidated(f, url) ==
    /\ LoopFree
    /\ flows[f].pc = "idle"
    /\ flows' = [flows EXCEPT ![f] =
          [IdleFlow EXCEPT !.pc = "typing", !.handler = "process_url", !.url = url]]
    /\ UNCHANGED <<config, bot_status, url_cache, running, web>>

\* lines 587-596: process_url up to its first await
ProcessUrl(f, url) ==
    /\ LoopFree
    /\ flows[f].pc = "idle"
    /\ flows' = [flows EXCEPT ![f] =
          IF ~is_valid_url(url)
          THEN [IdleFlow EXCEPT !.pc = "done", !.handler = "process_url", !.url = url,
                  !.message = Message("invalid_url", << >>, None,
                      "Please provide a valid URL starting with http:// or https://", << >>)]
          ELSE [IdleFlow EXCEPT !.pc = "typing", !.handler = "process_url", !.url = url]]
    /\ UNCHANGED <<config, bot_status, url_cache, running, web>>

\* lines 605-625: the keyboard and the reply for the stored URL
ProcessUrlReply(f, url, st) ==
    /\ url_cache' = st.cache
    /\ flows' = [flows EXCEPT ![f] = [@ EXCEPT
          !.pc = "done",
          !.keyboard = [i \in 1..Len(ButtonCodes) |->
                           CallbackData(ButtonCodes[i], st.url_id)],
          !.message = Message("choose_service", << >>,
                              PyStr(IF Len(url) > 50
                                    THEN Prefix(url, 47) \o <<".", ".", ".">> ELSE url),
                              "Choose a service to shorten:", << >>)]]

\* lines 598-625: store the URL, build the keyboard, reply
ProcessUrlStore(f) ==
    /\ LoopFree
    /\ flows[f].pc = "typing"
    /\ flows[f].handler = "process_url"
    /\ ProcessUrlReply(f, flows[f].url, store_url(url_cache, flows[f].url))
    /\ UNCHANGED <<config, bot_status, running, web>>

\* lines 630-634: button_handler up to await query.answer()
ButtonPress(f, data) ==
    /\ LoopFree
    /\ flows[f].pc = "idle"
    /\ flows' = [flows EXCEPT ![f] =
          [IdleFlow EXCEPT !.pc = "answered", !.handler = "button_handler", !.data = data]]
    /\ UNCHANGED <<config, bot_status, url_cache, running, web>>

\* the reply of button_handler when it dispatches nothing
ButtonReply(f, text) ==
    [flows[f] EXCEPT !.pc = "done", !.message = Message("error", << >>, None, text, << >>)]

\* the dispatcher called whatever the lookup returned
ButtonDispatchUnchecked(f, service, url) ==
    [IdleFlow EXCEPT !.pc = "dispatch", !.url = url, !.service = service,
        !.handler = IF service = ALL THEN "send_all_shortened_urls"
                    ELSE "send_single_shortened_url"]

\* lines 655-670: look the URL up and call the dispatcher for the service
ButtonDispatch(f, service, url) ==
    IF Len(url) = 0
    THEN ButtonReply(f, "URL not found. Please try again.")
    ELSE [IdleFlow EXCEPT !.pc = "dispatch", !.url = url, !.service = service,
            !.data = flows[f].data,
            !.handler = IF service = ALL THEN "send_all_shortened_urls"
                        ELSE "send_single_shortened_url"]

\* lines 644-653: the parts of the payload
ButtonParts(f, parts) ==
    IF Len(parts) # 3
    THEN ButtonReply(f, "Invalid request. Please try again.")
    ELSE ButtonDispatch(f, service_map(parts[2]), get_url(url_cache, parts[3]))

\* lines 636-670: parse the payload and look the URL up
ButtonResolve(f) ==
    /\ LoopFree
    /\ flows[f].pc = "answered"
    /\ flows' = [flows EXCEPT ![f] =
          IF ~StartsWith(flows[f].data, <<"s", "_">>)
          THEN ButtonReply(f, "Unknown command. Please try again.")
          ELSE ButtonParts(f, Split2(flows[f].data))]
    /\ UNCHANGED <<config, bot_status, url_cache, running, web>>

\* shortenOne(url, provider) of the interface: send_single_shortened_url called with a
\* URL and a service
CallSendSingle(f, url, service) ==
    /\ LoopFree
    /\ flows[f].pc = "idle"
    /\ flows' = [flows EXCEPT ![f] =
          [IdleFlow EXCEPT !.pc = "dispatch", !.handler = "send_single_shortened_url",
                           !.url = url, !.service = service]]
    /\ UNCHANGED <<config, bot_status, url_cache, running, web>>

\* shortenAll(url) of the interface: send_all_shortened_urls called with a URL
CallSendAll(f, url) ==
    /\ LoopFree
    /\ flows[f].pc = "idle"
    /\ flows' = [flows EXCEPT ![f] =
          [IdleFlow EXCEPT !.pc = "dispatch", !.handler = "send_all_shortened_urls",
                           !.url = url, !.service = ALL]]
    /\ UNCHANGED <<config, bot_status, url_cache, running, web>>

\* lines 687-714: the message send_single_shortened_url edits in for the outcome r of
\* shorten_url
SingleReply(cfg, service, r) ==
    IF r.exc = "none" THEN SingleMessage(cfg, service, r.ret)
    ELSE Message("error", << >>, None,
           "Error generating shortened URL. Please try again.", << >>)

\* lines 687-714: what send_single_shortened_url does with the outcome r of shorten_url,
\* up to its await of edit_message_text
SendSingleReply(f, service, r) ==
    /\ bot_status' = r.bs
    /\ running' = 0
    /\ flows' = [flows EXCEPT ![f] = [@ EXCEPT
          !.pc = "done",
          !.http = @ \o r.http,
          !.raised = r.exc,
          !.exc = "none",
          !.response = NotSent,
          !.results = IF r.exc = "none" THEN <<r.ret>> ELSE << >>,
          !.message = SingleReply(config, service, r)]]

\* lines 679-685 and 240: send_single_shortened_url calls shorten_url, which counts the
\* request and goes on to the requests of the adapter.  requests.get and requests.post
\* block the event loop: until shorten_url has returned no other coroutine runs, while
\* the thread of the web server does
SendSingle(f) ==
    /\ LoopFree
    /\ flows[f].pc = "dispatch"
    /\ flows[f].handler = "send_single_shortened_url"
    /\ bot_status.total_requests < MaxRequests
    /\ bot_status' = increment_requests(bot_status)
    /\ running' = f
    /\ flows' = [flows EXCEPT ![f] = [@ EXCEPT
          !.pc = "request", !.invoked = <<flows[f].service>>]]
    /\ UNCHANGED <<config, url_cache, web>>

\* lines 725-747: what one turn of the loop does with the outcome r of shorten_url,
\* and after the last turn the message, up to the await of edit_message_text
SendAllTurn(f, r, last) ==
    /\ bot_status' = r.bs
    /\ running' = IF last \/ r.exc # "none" THEN 0 ELSE f
    /\ flows' = [flows EXCEPT ![f] = [@ EXCEPT
          !.pc = IF last \/ r.exc # "none" THEN "done" ELSE "dispatch",
          !.http = @ \o r.http,
          !.raised = r.exc,
          !.exc = "none",
          !.response = NotSent,
          !.results = IF r.exc = "none" THEN Append(@, r.ret) ELSE @,
          !.message =
              IF r.exc # "none"
              THEN Message("error", << >>, None,
                     "Error generating shortened URLs. Please try again.", << >>)
              ELSE IF last
              THEN \* lines 735-747: the message for the results of the loop
                   AllMessage([i \in 1..(Len(flows[f].results) + 1) |->
                       AllEntry(SUPPORTED_SERVICES[i].key,
                                Append(flows[f].results, r.ret)[i])])
              ELSE @]]

\* lines 716-724 and 240: a turn of the loop of send_all_shortened_urls calls
\* shorten_url for the next service, which counts the request and goes on to the
\* requests of the adapter; the loop has no await
SendAll(f) ==
    /\ running \in {0, f}
    /\ flows[f].pc = "dispatch"
    /\ flows[f].handler = "send_all_shortened_urls"
    /\ running = 0 => bot_status.total_requests + Len(SUPPORTED_SERVICES) <= MaxRequests
    /\ bot_status' = increment_requests(bot_status)
    /\ running' = f
    /\ flows' = [flows EXCEPT ![f] = [@ EXCEPT
          !.pc = "request", !.invoked = Append(@, SUPPORTED_SERVICES[Len(@) + 1].key)]]
    /\ UNCHANGED <<config, url_cache, web>>

\* the service shorten_url was called for in flow f
Called(f) == flows[f].invoked[Len(flows[f].invoked)]

\* shorten_url of flow f goes on with r, the outcome of the body of its try or of its
\* except clauses: an exception of the body goes to the except clauses (line 384), and
\* what shorten_url returns or lets through goes to the dispatcher that called it
ShortenGoesOn(f, r) ==
    /\ IF flows[f].pc \in {"request", "post"} /\ r.exc # "none"
       THEN /\ bot_status' = r.bs
            /\ flows' = [flows EXCEPT ![f] = [@ EXCEPT
                  !.pc = "except", !.http = @ \o r.http, !.exc = r.exc,
                  !.response = NotSent]]
            /\ UNCHANGED running
       ELSE IF flows[f].handler = "send_single_shortened_url"
       THEN SendSingleReply(f, flows[f].service, r)
       ELSE SendAllTurn(f, r, Len(flows[f].invoked) = Len(SUPPORTED_SERVICES))
    /\ UNCHANGED <<config, url_cache, web>>

\* lines 242-382: the first request of the call comes back with net[1] and the body of
\* the try runs on, to its return, to the exception it raises, or, in the adapter of
\* gplinks when the GET gave no short URL, to requests.post (line 356), where the thread
\* blocks a second time with the answer of the GET at hand and no counter written.  The
\* body writes one counter at most
ShortenAnswer(f, net) ==
    /\ running = f
    /\ flows[f].pc = "request"
    /\ LET r == TryBody(bot_status, config, flows[f].url, Called(f), net)
       IN  IF Len(r.http) > 1
           THEN /\ flows' = [flows EXCEPT ![f] = [@ EXCEPT
                      !.pc = "post", !.http = @ \o <<r.http[1]>>, !.response = net[1]]]
                /\ UNCHANGED <<config, bot_status, url_cache, running, web>>
           ELSE ShortenGoesOn(f, r)

\* lines 356-382: the POST of the adapter of gplinks comes back with r and the body of
\* the try runs to its return or to the exception it raises
ShortenPost(f, r) ==
    /\ running = f
    /\ flows[f].pc = "post"
    /\ ShortenGoesOn(f,
          [TryBody(bot_status, config, flows[f].url, Called(f), <<flows[f].response, r>>)
              EXCEPT !.http = Tail(@)])

\* lines 384-395: the except clauses of shorten_url for the exception the body raised
ShortenExcept(f) ==
    /\ running = f
    /\ flows[f].pc = "except"
    /\ ShortenGoesOn(f, Except(Raise(bot_status, flows[f].exc, << >>)))

\* the handler returns
Finish(f) ==
    /\ LoopFree
    /\ flows[f].pc = "done"
    /\ flows' = [flows EXCEPT ![f] = IdleFlow]
    /\ UNCHANGED <<config, bot_status, url_cache, running, web>>

\* lines 484-516: the /status command
Status(f) ==
    /\ LoopFree
    /\ flows[f].pc = "idle"
    /\ flows' = [flows EXCEPT ![f] =
          [IdleFlow EXCEPT !.pc = "done", !.handler = "status",
             !.message = Message("status", << >>, None, "API Key Status",
                                 StatusText(config))]]
    /\ UNCHANGED <<config, bot_status, url_cache, running, web>>

\* lines 518-539: the /stats command reads the statistics and goes on to its probes,
\* which block the event loop as the requests of shorten_url do
BotStats(f) ==
    /\ LoopFree
    /\ flows[f].pc = "idle"
    /\ running' = f
    /\ flows' = [flows EXCEPT ![f] =
          [IdleFlow EXCEPT !.pc = "probe", !.handler = "bot_stats",
             !.message = Message("stats", << >>,
                 PyDict([total_requests |-> get_stats(bot_status).total_requests,
                         successful_shortens |-> get_stats(bot_status).successful_shortens,
                         failed_shortens |-> get_stats(bot_status).failed_shortens,
                         success_rate |-> get_stats(bot_status).success_rate]),
                 "Bot Statistics", << >>)]]
    /\ UNCHANGED <<config, bot_status, url_cache, web>>

\* lines 541-553: one turn of the loop of /stats, the probe of the next service in
\* declaration order, whose request comes back with r; the loop has no await, and the
\* reply follows the last turn.  The entry the probe stores (line 222, 231, 234) shows
\* in the statistics a request of the web server has read and not yet sent
BotStatsProbe(f, r) ==
    /\ running = f
    /\ flows[f].pc = "probe"
    /\ bot_status' = check_api_health(bot_status, config,
          SUPPORTED_SERVICES[Len(flows[f].message.entries) + 1].key, r, ElapsedMs).bs
    /\ running' = IF Len(flows[f].message.entries) + 1 = Len(SUPPORTED_SERVICES)
                  THEN 0 ELSE f
    /\ flows' = [flows EXCEPT ![f] = [@ EXCEPT
          !.pc = IF Len(flows[f].message.entries) + 1 = Len(SUPPORTED_SERVICES)
                 THEN "done" ELSE "probe",
          !.http = @ \o check_api_health(bot_status, config,
              SUPPORTED_SERVICES[Len(flows[f].message.entries) + 1].key, r, ElapsedMs).http,
          !.message = [@ EXCEPT !.entries = Append(@, check_api_health(bot_status, config,
              SUPPORTED_SERVICES[Len(flows[f].message.entries) + 1].key, r,
              ElapsedMs).health)]]]
    /\ web' = IF web.route = "idle" THEN web
              ELSE [web EXCEPT !.stats.api_status = bot_status'.api_status]
    /\ UNCHANGED <<config, url_cache>>

\* lines 878, 912: a request arrives at the web server, which reads the statistics;
\* stats.api_status stays the health table of bot_status until the response is sent
WebRequest(route) ==
    /\ web.route = "idle"
    /\ web.served < MaxWebRequests
    /\ web' = [web EXCEPT !.route = route, !.stats = get_stats(bot_status)]
    /\ UNCHANGED <<config, bot_status, url_cache, flows, running>>

\* the service the loop of the request probes next
WebService ==
    IF Len(web.health) < Len(SUPPORTED_SERVICES)
    THEN SUPPORTED_SERVICES[Len(web.health) + 1].key ELSE << >>

\* lines 883-886 (and 837-838, the same loop in home): one probe of the loop of
\* api_status, made on the thread of the web server whatever the event loop is doing;
\* the entry it stores shows in the statistics read at line 878
WebProbe(r) ==
    /\ web.route = "api_status"
    /\ Len(web.health) < Len(SUPPORTED_SERVICES)
    /\ bot_status' = check_api_health(bot_status, config, WebService, r, ElapsedMs).bs
    /\ web' = [web EXCEPT
          !.stats.api_status = bot_status'.api_status,
          !.health =
             Append(@, check_api_health(bot_status, config, WebService, r, ElapsedMs).health)]
    /\ UNCHANGED <<config, url_cache, flows, running>>

\* lines 879-893, 913: the response is sent
WebReply ==
    /\ \/ web.route = "api_stats"
       \/ web.route = "api_status" /\ Len(web.health) = Len(SUPPORTED_SERVICES)
    /\ web' = WebIdle(web.served + 1)
    /\ UNCHANGED <<config, bot_status, url_cache, flows, running>>

\* The revision without a cache (bot.py).  Its configuration is an input: a Bitly token
\* set or unset, the other credentials set, and for the table config.SUPPORTED_SERVICES,
\* which main() (bot.py lines 374-377) requires to be non-empty, the table of the later
\* revision or the entry of tinyurl alone.  Two updates are in flight.
InitLegacy ==
    /\ config \in [BITLY_TOKEN : BitlyTokens,
                   CUTTLY_API : {AllConfigured.CUTTLY_API},
                   GPLINKS_API : {AllConfigured.GPLINKS_API},
                   SUPPORTED_SERVICES : {SUPPORTED_SERVICES, <<SUPPORTED_SERVICES[2]>>}]
    /\ bot_status = BotStatusInit
    /\ url_cache = << >>
    /\ flows = [f \in {1, 2} |-> IdleFlow]
    /\ running = 0
    /\ web = WebIdle(0)

\* bot.py lines 227-236: process_url up to its first await, the reply to a rejected
\* text or reply_chat_action
LegacyProcessUrl(f, url) ==
    /\ LoopFree
    /\ flows[f].pc = "idle"
    /\ flows' = [flows EXCEPT ![f] =
          IF ~LegacyIsValidUrl(url)
          THEN [IdleFlow EXCEPT !.pc = "done", !.handler = "process_url", !.url = url,
                  !.message = Message("invalid_url", << >>, None,
                      "Please provide a valid URL starting with http:// or https://", << >>)]
          ELSE [IdleFlow EXCEPT !.pc = "typing", !.handler = "process_url", !.url = url]]
    /\ UNCHANGED <<config, bot_status, url_cache, running, web>>

\* bot.py lines 238-259: encoded_url, the callback data of the five buttons,
\* f"shorten_{service}_{encoded_url}", and the reply that carries them
LegacyProcessUrlReply(f) ==
    /\ LoopFree
    /\ flows[f].pc = "typing"
    /\ flows' = [flows EXCEPT ![f] = [@ EXCEPT
          !.pc = "done",
          !.keyboard = [i \in 1..5 |->
              <<"s", "h", "o", "r", "t", "e", "n", "_">>
                 \o <<BITLY, TINYURL, CUTTLY, GPLINKS, ALL>>[i]
                 \o <<"_">> \o LegacyEncode(flows[f].url)],
          !.message = Message("choose_service", << >>, PyStr(flows[f].url),
                              "Choose a service to shorten:", << >>)]]
    /\ UNCHANGED <<config, bot_status, url_cache, running, web>>

\* bot.py lines 264-268: button_handler up to await query.answer()
LegacyButton(f, data) ==
    /\ LoopFree
    /\ flows[f].pc = "idle"
    /\ flows' = [flows EXCEPT ![f] =
          [IdleFlow EXCEPT !.pc = "answered", !.handler = "button_handler", !.data = data]]
    /\ UNCHANGED <<config, bot_status, url_cache, running, web>>

\* bot.py lines 270-285: the parts of the callback data.  Data that does not start with
\* 'shorten_' ends the handler without a reply, data without three parts is answered
\* with an error, and else the handler decodes the URL, awaits reply_chat_action (line
\* 278) and goes on to the dispatcher of the service
LegacyButtonParts(f) ==
    /\ LoopFree
    /\ flows[f].pc = "answered"
    /\ flows' = [flows EXCEPT ![f] =
          IF ~StartsWith(flows[f].data, <<"s", "h", "o", "r", "t", "e", "n", "_">>)
          THEN [@ EXCEPT !.pc = "done"]
          ELSE IF Len(Split2(flows[f].data)) # 3
          THEN ButtonReply(f, "Invalid request. Please try again.")
          ELSE [@ EXCEPT
                  !.pc = "dispatch",
                  !.service = Split2(flows[f].data)[2],
                  !.url = LegacyDecode(Split2(flows[f].data)[3]),
                  !.handler = IF Split2(flows[f].data)[2] = ALL
                              THEN "send_all_shortened_urls"
                              ELSE "send_single_shortened_url"]]
    /\ UNCHANGED <<config, bot_status, url_cache, running, web>>

\* bot.py lines 293-325: send_single_shortened_url calls shorten_url, whose request is
\* answered with r, and edits the outcome into the message; there is no await before
\* that of edit_message_text
LegacySendSingle(f, r) ==
    /\ LoopFree
    /\ flows[f].pc = "dispatch"
    /\ flows[f].handler = "send_single_shortened_url"
    /\ LET service == flows[f].service
           service_info == LegacyServiceInfo(config, service)
           shortened == LegacyShortenUrl(config, flows[f].url, service, r)
       IN  flows' = [flows EXCEPT ![f] = [@ EXCEPT
              !.pc = "done",
              !.invoked = <<service>>,
              !.http = shortened.http,
              !.results = <<shortened.ret>>,
              !.message =
                  IF Truthy(shortened.ret)
                  THEN Message("single_ok", service_info.name, shortened.ret,
                         IF service = GPLINKS
                         THEN "Earn money with this shortened link!" ELSE "", << >>)
                  ELSE Message("single_failed", service_info.name, None,
                         IF service_info.requires_key
                         THEN "API key might not be configured."
                         ELSE "Service might be temporarily unavailable.", << >>)]]
    /\ UNCHANGED <<config, bot_status, url_cache, running, web>>

\* bot.py lines 327-362: one turn of the loop of send_all_shortened_urls over the table,
\* shorten_url answered with r, and after the last turn the message, up to the await of
\* edit_message_text; the loop has no await, so no other coroutine runs during it
LegacySendAll(f, r) ==
    /\ running \in {0, f}
    /\ flows[f].pc = "dispatch"
    /\ flows[f].handler = "send_all_shortened_urls"
    /\ LET turn == Len(flows[f].invoked) + 1
           last == turn = Len(config.SUPPORTED_SERVICES)
           service_key == config.SUPPORTED_SERVICES[turn].key
           service_info == LegacyServiceInfo(config, service_key)
           shortened == LegacyShortenUrl(config, flows[f].url, service_key, r)
           entries == Append(flows[f].message.entries,
                         [service_name |-> service_info.name,
                          ok |-> Truthy(shortened.ret),
                          shortened_url |-> IF Truthy(shortened.ret)
                                            THEN shortened.ret ELSE None,
                          reason |-> IF Truthy(shortened.ret) THEN ""
                                     ELSE IF service_info.requires_key
                                     THEN "API key not configured"
                                     ELSE "Service unavailable"])
           successful_shortens == Cardinality({i \in 1..Len(entries) : entries[i].ok})
       IN  /\ running' = IF last THEN 0 ELSE f
           /\ flows' = [flows EXCEPT ![f] = [@ EXCEPT
                 !.pc = IF last THEN "done" ELSE "dispatch",
                 !.invoked = Append(@, service_key),
                 !.http = @ \o shortened.http,
                 !.results = Append(@, shortened.ret),
                 !.message =
                     IF ~last THEN Message("none", << >>, None, "", entries)
                     ELSE IF successful_shortens = 0
                     THEN Message("all_failed", << >>, None,
                            "All services failed to shorten the URL. Please try again later.",
                            << >>)
                     ELSE Message("all", << >>, PyInt(successful_shortens),
                            "services successful", entries)]]
    /\ UNCHANGED <<config, bot_status, url_cache, web>>

Flows == DOMAIN flows

Next ==
    \/ \E f \in Flows, url \in URLS : ProcessUrl(f, url)
    \/ \E f \in Flows : ProcessUrlStore(f)
    \/ \E f \in Flows, data \in Callbacks : ButtonPress(f, data)
    \/ \E f \in Flows : ButtonResolve(f)
    \/ \E f \in Flows, url \in DispatchUrls, service \in ServiceKeys :
          CallSendSingle(f, url, service)
    \/ \E f \in Flows, url \in DispatchUrls : CallSendAll(f, url)
    \/ \E f \in Flows : SendSingle(f)
    \/ \E f \in Flows : SendAll(f)
    \/ \E f \in Flows : flows[f].pc = "request" /\ \E net \in Outcomes(Called(f)) :
          ShortenAnswer(f, net)
    \/ \E f \in Flows, r \in GplinksPostOutcomes : ShortenPost(f, r)
    \/ \E f \in Flows : ShortenExcept(f)
    \/ \E f \in Flows : Finish(f)

Spec == Init /\ [][Next]_vars

\* the handlers of NFlows updates interleaved, each update handled once
NextConc ==
    \/ \E f \in Flows, url \in URLS : ProcessUrl(f, url)
    \/ \E f \in Flows : ProcessUrlStore(f)
    \/ \E f \in Flows, service \in ServiceKeys : CallSendSingle(f, UrlExample, service)
    \/ \E f \in Flows : SendSingle(f)
    \/ \E f \in Flows : flows[f].pc = "request" /\ \E net \in Outcomes(Called(f)) :
          ShortenAnswer(f, net)
    \/ \E f \in Flows, r \in GplinksPostOutcomes : ShortenPost(f, r)
    \/ \E f \in Flows : ShortenExcept(f)

SpecConc == InitConc /\ [][NextConc]_vars

\* the cache under NFlows chats: URLs are sent in and buttons are pressed, a handler
\* that has returned takes the next update
\* (the example and the two URLs of one token; the buttons of the first and last row
\* and one with a token never issued)
NextCache ==
    \/ \E f \in Flows, url \in {UrlExample, UrlCollideA, UrlCollideB} : ProcessUrl(f, url)
    \/ \E f \in Flows : ProcessUrlStore(f)
    \/ \E f \in Flows :
          \E data \in {CallbackData(ButtonCodes[i], generate_url_id(u)) :
                          i \in {1, Len(ButtonCodes)}, u \in {UrlExample, UrlCollideA}}
                      \cup {CallbackData(ButtonCodes[1], TokenUnissued)} :
             ButtonPress(f, data)
    \/ \E f \in Flows : ButtonResolve(f)
    \/ \E f \in Flows : Finish(f)

SpecCache == InitConc /\ [][NextCache]_vars

\* one chat and the web server
InitHealth ==
    /\ config \in HealthConfigs
    /\ bot_status = BotStatusInit
    /\ url_cache = << >>
    /\ flows = [f \in {1} |-> IdleFlow]
    /\ running = 0
    /\ web = WebIdle(0)

\* the /status command, the requests and probes of the web server, and between them a
\* URL sent in or a single dispatch to any provider; the chat sends one update
NextHealth ==
    \/ \E f \in Flows : Status(f)
    \/ \E route \in {"api_status", "api_stats"} : WebRequest(route)
    \/ \E r \in ProbeAnswers(config, WebService) : WebProbe(r)
    \/ WebReply
    \/ \E f \in Flows : ProcessUrl(f, UrlExample)
    \/ \E f \in Flows : ProcessUrlStore(f)
    \/ \E f \in Flows, url \in DispatchUrls, service \in ServiceKeys :
          CallSendSingle(f, url, service)
    \/ \E f \in Flows : SendSingle(f)
    \/ \E f \in Flows : flows[f].pc = "request" /\ \E net \in Outcomes(Called(f)) :
          ShortenAnswer(f, net)
    \/ \E f \in Flows, r \in GplinksPostOutcomes : ShortenPost(f, r)
    \/ \E f \in Flows : ShortenExcept(f)

SpecHealth == InitHealth /\ [][NextHealth]_vars

\* two chats and the web server, with one of the three credentials configured: the
\* probes of the other two providers return before their request (lines 170-171,
\* 193-194, 205-206)
InitProbe ==
    /\ config \in {c \in Configs :
          Cardinality({s \in {BITLY, CUTTLY, GPLINKS} : Len(Credential(c, s)) > 0}) = 1}
    /\ bot_status = BotStatusInit
    /\ url_cache = << >>
    /\ flows = [f \in {1, 2} |-> IdleFlow]
    /\ running = 0
    /\ web = WebIdle(0)

\* the /stats command in the first chat, in either chat a URL sent in or a single
\* dispatch to tinyurl, which answers with a short URL or not at all, and meanwhile the
\* web server serves /api/status and /api/stats; the request of a probe, of /stats or
\* of the web server, times out, is refused, or is answered 200 or 500
NextProbe ==
    \/ BotStats(1)
    \/ \E f \in Flows : flows[f].pc = "probe" /\
          \E r \in ProbeAnswers(config,
                      SUPPORTED_SERVICES[Len(flows[f].message.entries) + 1].key) :
             BotStatsProbe(f, r)
    \/ \E f \in Flows : ProcessUrl(f, UrlExample)
    \/ \E f \in Flows : ProcessUrlStore(f)
    \/ \E f \in Flows : CallSendSingle(f, UrlExample, TINYURL)
    \/ \E f \in Flows : SendSingle(f)
    \/ \E f \in Flows : \E r \in {TimeoutError, Response(200, TextBody(UrlExample))} :
          ShortenAnswer(f, <<r, NotSent>>)
    \/ \E f \in Flows : ShortenExcept(f)
    \/ \E route \in {"api_status", "api_stats"} : WebRequest(route)
    \/ \E r \in ProbeAnswers(config, WebService) : WebProbe(r)
    \/ WebReply

SpecProbe == InitProbe /\ [][NextProbe]_vars


\* the revision without a cache: texts sent to the chat, presses of the buttons of the
\* keyboards it has replied with, and three payloads no keyboard made (two parts, no
\* prefix, a service that is none of the buttons')
NextLegacy ==
    \/ \E f \in Flows, url \in LegacyUrls : LegacyProcessUrl(f, url)
    \/ \E f \in Flows : LegacyProcessUrlReply(f)
    \/ \E f, g \in Flows : \E i \in DOMAIN flows[g].keyboard :
          LegacyButton(f, flows[g].keyboard[i])
    \/ \E f \in Flows : \E data \in {<<"s", "h", "o", "r", "t", "e", "n", "_", "x">>,
                                     <<"s", "_", "b", "i", "t", "l", "y">>,
                                     <<"s", "h", "o", "r", "t", "e", "n", "_", "x", "y", "z", "_", "h", "t", "t", "p", "|", "_", "_", "a", ".", "c", "o">>} :
          LegacyButton(f, data)
    \/ \E f \in Flows : LegacyButtonParts(f)
    \/ \E f \in Flows : \E net \in Outcomes(flows[f].service) : LegacySendSingle(f, net[1])
    \/ \E f \in Flows :
          /\ flows[f].pc = "dispatch"
          /\ flows[f].handler = "send_all_shortened_urls"
          /\ \E net \in Outcomes(config.SUPPORTED_SERVICES[Len(flows[f].invoked) + 1].key) :
                LegacySendAll(f, net[1])

SpecLegacy == InitLegacy /\ [][NextLegacy]_vars

(***************************************************************************)
(* Properties                                                              *)
(***************************************************************************)
\* the dispatchers that have called shorten_url at least once
SingleFlows == {f \in Flows : flows[f].handler = "send_single_shortened_url"
                                /\ flows[f].invoked # << >>}
AllFlows == {f \in Flows : flows[f].handler = "send_all_shortened_urls"
                             /\ flows[f].invoked # << >>}
\* shorten_url has been entered from the dispatcher of flow f and has not returned
InCall(f) == flows[f].pc \in {"request", "post", "except"}
\* the calls of shorten_url that have come back to the dispatcher of flow f
Returned(f) == Len(flows[f].invoked) - (IF InCall(f) THEN 1 ELSE 0)
\* send_all_shortened_urls after its loop
AllDone == {f \in AllFlows : flows[f].pc = "done"}

\* C1: for a URL that fails validation, a single dispatch and an all-providers
\* dispatch send no HTTP request to any provider, and every shorten_url call returns
\* None (no short URL): the reply is the failure message.
InvalidUrlSendsNothing ==
    \A f \in SingleFlows \cup AllFlows :
        ~is_valid_url(flows[f].url) =>
            /\ flows[f].http = << >>
            /\ flows[f].raised = "none"
            /\ flows[f].exc = "none"
            /\ Len(flows[f].results) = Returned(f)
            /\ \A i \in 1..Len(flows[f].results) : IsNone(flows[f].results[i])
            /\ flows[f].pc = "done" =>
                  flows[f].message.kind \in {"single_failed", "all_failed"}

\* an all-providers dispatch of an invalid URL that has called shorten_url for all
\* four providers
InvalidUrlAllDispatched ==
    \E f \in AllDone :
        /\ ~is_valid_url(flows[f].url)
        /\ Len(flows[f].invoked) = Len(SUPPORTED_SERVICES)
        /\ bot_status.failed_shortens >= Len(SUPPORTED_SERVICES)

\* C2: an all-providers dispatch on a valid URL yields exactly one outcome per provider,
\* in declaration order bitly, tinyurl, cuttly, gplinks, for every combination of
\* success and failure, also when all four providers fail: the outcomes are not dropped.
AllDispatchListsEveryProvider ==
    \A f \in AllDone :
        is_valid_url(flows[f].url) =>
            /\ Len(flows[f].message.entries) = Len(SUPPORTED_SERVICES)
            /\ \A i \in 1..Len(flows[f].message.entries) :
                  flows[f].message.entries[i].service_name = SUPPORTED_SERVICES[i].name

\* C3: during an all-providers dispatch no failure of a provider raises out of
\* shorten_url, and the providers after it are still called, in declaration order.
ProviderFailureContained ==
    /\ \A f \in Flows : flows[f].raised = "none"
    /\ \A f \in AllFlows :
          /\ \A i \in 1..Len(flows[f].invoked) : flows[f].invoked[i] = SUPPORTED_SERVICES[i].key
          /\ Len(flows[f].results) = Returned(f)
          /\ flows[f].pc = "done" => Len(flows[f].invoked) = Len(SUPPORTED_SERVICES)

\* an all-providers dispatch where bitly was asked and failed, cuttly answered a body
\* without the expected field, and gplinks still returned a short URL
LaterProviderStillCalled ==
    \E f \in AllDone :
        /\ Len(flows[f].results) = Len(SUPPORTED_SERVICES)
        /\ flows[f].http # << >>
        /\ flows[f].http[1] = Request(BITLY, "POST")
        /\ IsNone(flows[f].results[1])
        /\ IsNone(flows[f].results[3])
        /\ bot_status.successful_shortens + bot_status.failed_shortens
              > bot_status.total_requests
        /\ Truthy(flows[f].results[4])

\* C4: after any sequence of completed shorten_url calls, none being in progress,
\* total_requests = successful_shortens + failed_shortens.
CountersPartitionCalls ==
    (\A f \in Flows : ~InCall(f)) =>
        bot_status.total_requests
            = bot_status.successful_shortens + bot_status.failed_shortens

\* the single dispatches whose shorten_url call returned a short URL
Succeeded == {f \in SingleFlows : flows[f].results # << >> /\ Truthy(flows[f].results[1])}

\* C5: the shorten_url calls of concurrent request flows lose no increment:
\* total_requests is the number of calls made, and when each of the N calls
\* succeeded, successful_shortens is N.
ConcurrentCallsCounted ==
    /\ bot_status.total_requests = Cardinality(SingleFlows)
    /\ Succeeded = SingleFlows =>
          /\ bot_status.successful_shortens = Cardinality(SingleFlows)
          /\ bot_status.failed_shortens = 0

\* every flow has made a shorten_url call and every call succeeded
AllFlowsSucceeded ==
    /\ Cardinality(Flows) >= 2
    /\ Succeeded = Flows
    /\ bot_status.successful_shortens = Cardinality(Flows)

\* the process_url flows that have stored their URL, and the token store_url returned
Stored == {f \in Flows : flows[f].handler = "process_url" /\ flows[f].keyboard # << >>}
IssuedToken(f) == Split2(flows[f].keyboard[1])[3]

\* C6: concurrent store_url calls of flows with distinct URLs whose tokens are
\* distinct lose no entry: get_url on the token of each stored URL returns that URL.
ConcurrentStoresResolvable ==
    \A f \in Stored :
        (\A g \in Stored : IssuedToken(g) = IssuedToken(f) => flows[g].url = flows[f].url)
            => get_url(url_cache, IssuedToken(f)) = flows[f].url

\* all flows have stored, two of them distinct URLs with distinct tokens
DistinctUrlsStored ==
    /\ Stored = Flows
    /\ \E f, g \in Stored :
          /\ flows[f].url # flows[g].url
          /\ IssuedToken(f) # IssuedToken(g)
          /\ get_url(url_cache, IssuedToken(f)) = flows[f].url
          /\ get_url(url_cache, IssuedToken(g)) = flows[g].url

\* C7: store_url is idempotent: storing a URL the cache already holds returns the
\* token it is held under and leaves the cache as it was, and get_url on the token
\* returned by any store_url call returns the URL.
StoreUrlIdempotent ==
    [][\A f \in Flows :
          (flows[f].pc = "typing" /\ flows'[f].pc = "done") =>
              /\ get_url(url_cache', IssuedToken(f)') = flows[f].url
              /\ \A t \in DOMAIN url_cache :
                    url_cache[t] = flows[f].url =>
                        /\ IssuedToken(f)' = t
                        /\ url_cache' = url_cache]_vars

\* two flows have stored the same URL
SameUrlStoredTwice ==
    \E f, g \in Stored :
        /\ f # g
        /\ flows[f].url = flows[g].url
        /\ IssuedToken(f) = IssuedToken(g)
        /\ get_url(url_cache, IssuedToken(f)) = flows[f].url

\* C8: get_url on a token store_url never returned gives the empty string and leaves
\* the cache unchanged: button_handler replies that the URL was not found and
\* dispatches nothing.
UnissuedTokenNotFound ==
    [][\A f \in Flows :
          (/\ flows[f].pc = "answered"
           /\ flows'[f].pc # "answered"
           /\ StartsWith(flows[f].data, <<"s", "_">>)
           /\ Len(Split2(flows[f].data)) = 3
           /\ Split2(flows[f].data)[3] \notin DOMAIN url_cache) =>
              /\ get_url(url_cache, Split2(flows[f].data)[3]) = << >>
              /\ flows'[f].pc = "done"
              /\ flows'[f].url = << >>
              /\ flows'[f].message.detail = "URL not found. Please try again."
              /\ url_cache' = url_cache]_vars

\* button_handler has looked up a token no store_url call returned, in a cache that
\* holds other tokens
UnissuedTokenLookedUp ==
    \E f \in Flows :
        /\ flows[f].handler = "button_handler"
        /\ flows[f].pc = "done"
        /\ Len(Split2(flows[f].data)) = 3
        /\ Split2(flows[f].data)[3] = TokenUnissued
        /\ url_cache # << >>
        /\ flows[f].message.detail = "URL not found. Please try again."

\* the single dispatches about to call shorten_url with a valid URL
SingleReady == {f \in Flows : /\ flows[f].handler = "send_single_shortened_url"
                                /\ flows[f].pc = "dispatch"
                                /\ is_valid_url(flows[f].url)}

\* what a single dispatch hands back: the value of shorten_url and the message
SingleOutcome(cfg, url, service, net) ==
    [ret |-> shorten_url(BotStatusInit, cfg, url, service, net).ret,
     message |-> SingleReply(cfg, service,
                             shorten_url(BotStatusInit, cfg, url, service, net))]

\* C9: a provider's HTTP 403 or 401 answer with a quota / authorization message is
\* classified apart from its other non-success answers: the outcome of the dispatch
\* differs from the outcome for a 500 answer.
QuotaOrAuthDistinguished ==
    \A f \in SingleReady :
        \A code \in {401, 403} :
            LET quota == Response(code, TextBody(QuotaText))
                other == Response(500, TextBody(<< >>))
            IN  shorten_url(bot_status, config, flows[f].url, flows[f].service,
                            <<quota, quota>>).http # << >>
                => SingleOutcome(config, flows[f].url, flows[f].service, <<quota, quota>>)
                     # SingleOutcome(config, flows[f].url, flows[f].service, <<other, other>>)

\* the configuration with the credential of a service set to key
WithCredential(cfg, service, key) ==
    CASE service = BITLY -> [cfg EXCEPT !.BITLY_TOKEN = key]
      [] service = CUTTLY -> [cfg EXCEPT !.CUTTLY_API = key]
      [] service = GPLINKS -> [cfg EXCEPT !.GPLINKS_API = key]
      [] OTHER -> cfg

\* C10: for every provider that requires a credential, a single dispatch that fails
\* because the credential is missing and one that fails by a timeout with the
\* credential configured hand distinguishable outcomes to the caller.
FailureKindDistinguished ==
    \A f \in SingleReady :
        (ServiceInfo(flows[f].service).known /\ ServiceInfo(flows[f].service).requires_key) =>
            SingleOutcome(WithCredential(config, flows[f].service, << >>),
                          flows[f].url, flows[f].service, <<NotSent, NotSent>>)
              # SingleOutcome(WithCredential(config, flows[f].service, <<"k", "e", "y">>),
                              flows[f].url, flows[f].service, <<TimeoutError, TimeoutError>>)

\* the step in which send_single_shortened_url of flow f enters shorten_url
SingleEnters(f) ==
    /\ flows[f].pc = "dispatch"
    /\ flows[f].handler = "send_single_shortened_url"
    /\ flows'[f].pc = "request"

\* the step in which shorten_url comes back to send_single_shortened_url of flow f,
\* which replies
SingleStep(f) ==
    /\ InCall(f)
    /\ flows[f].handler = "send_single_shortened_url"
    /\ flows'[f].pc = "done"

\* C11: a single-provider dispatch for provider p calls shorten_url once, for p: every
\* HTTP request of the call goes to p's endpoint and total_requests grows by one, on
\* entry, and stays as it is until the dispatcher has replied.
SingleDispatchCallsOneAdapter ==
    [][\A f \in Flows :
          /\ SingleEnters(f) =>
                /\ flows'[f].invoked = <<flows[f].service>>
                /\ bot_status'.total_requests = bot_status.total_requests + 1
          /\ (InCall(f) /\ flows[f].handler = "send_single_shortened_url") =>
                /\ flows'[f].invoked = <<flows[f].service>>
                /\ \A i \in 1..Len(flows'[f].http) :
                      flows'[f].http[i].service = flows[f].service
                /\ bot_status'.total_requests = bot_status.total_requests
                /\ flows'[f].pc \in {"request", "post", "except", "done"}]_vars

\* a single dispatch to gplinks that sent its GET and its POST
SingleGplinksSentBoth ==
    \E f \in SingleFlows :
        /\ flows[f].pc = "done"
        /\ flows[f].service = GPLINKS
        /\ flows[f].http = <<Request(GPLINKS, "GET"), Request(GPLINKS, "POST")>>
        /\ bot_status.total_requests >= 1

\* C12: a shorten call on a valid URL for bitly, cuttly or gplinks made while that
\* provider's credential is absent returns a failure, sends no HTTP request and adds
\* one to failed_shortens; tinyurl is sent its request whatever credentials are set.
UnconfiguredSendsNothing ==
    [][\A f \in Flows : (SingleStep(f) /\ is_valid_url(flows[f].url)) =>
          /\ (flows[f].service \in {BITLY, CUTTLY, GPLINKS}
                /\ Credential(config, flows[f].service) = << >>) =>
                   /\ flows[f].pc = "request"
                   /\ flows'[f].http = << >>
                   /\ flows'[f].results = <<None>>
                   /\ bot_status'.failed_shortens = bot_status.failed_shortens + 1
                   /\ bot_status'.successful_shortens = bot_status.successful_shortens
          /\ flows[f].service = TINYURL =>
                   flows'[f].http = <<Request(TINYURL, "GET")>>]_vars

\* a single dispatch of a valid URL to cuttly that has returned, with no key configured
\* for cuttly while bitly has its token
UnconfiguredDispatched ==
    \E f \in SingleFlows :
        /\ flows[f].pc = "done"
        /\ is_valid_url(flows[f].url)
        /\ flows[f].service = CUTTLY
        /\ config.CUTTLY_API = << >>
        /\ config.BITLY_TOKEN # << >>
        /\ bot_status.failed_shortens >= 1

\* the outcome of shorten_url for the single dispatch of flow f when the network
\* answers net
ShortenOutcome(f, net) ==
    shorten_url(bot_status, config, flows[f].url, flows[f].service, net)

\* C13: tinyurl returns a short URL exactly when the status is 200 and the trimmed body
\* is non-empty, the value being the trimmed body; a 200 response with an empty or
\* whitespace-only body is a failure and is not counted in successful_shortens.
TinyurlSuccessNeedsBody ==
    \A f \in SingleReady : flows[f].service = TINYURL =>
        \A net \in Outcomes(TINYURL) :
            LET ok == /\ net[1].kind = "response"
                      /\ net[1].status_code = 200
                      /\ Strip(net[1].body.text) # << >>
            IN  /\ Truthy(ShortenOutcome(f, net).ret) <=> ok
                /\ ok => ShortenOutcome(f, net).ret = PyStr(Strip(net[1].body.text))
                /\ ok <=> (ShortenOutcome(f, net).bs.successful_shortens
                             = bot_status.successful_shortens + 1)
                /\ ~ok => (ShortenOutcome(f, net).bs.successful_shortens
                             = bot_status.successful_shortens)

\* the short link of a cuttly response that carries one under url.status = 7, or None
CuttlyShortLink(r) ==
    IF /\ r.kind = "response"
       /\ r.status_code = 200
       /\ r.body.fmt = "json"
       /\ r.body.value.t = "dict"
       /\ "url" \in DOMAIN r.body.value.items
       /\ r.body.value.items["url"].t = "dict"
       /\ "status" \in DOMAIN r.body.value.items["url"].items
       /\ r.body.value.items["url"].items["status"] = PyInt(7)
       /\ "shortLink" \in DOMAIN r.body.value.items["url"].items
    THEN r.body.value.items["url"].items["shortLink"]
    ELSE None

\* C14: cuttly, with its key configured, returns url.shortLink when the status is 200
\* and url.status of the JSON body is 7; every other url.status, a missing field and
\* every other HTTP status return no short URL, and nothing is raised.
CuttlySuccessNeedsSeven ==
    \A f \in SingleReady :
        (flows[f].service = CUTTLY /\ config.CUTTLY_API # << >>) =>
            \A net \in Outcomes(CUTTLY) :
                /\ ShortenOutcome(f, net).exc = "none"
                /\ ShortenOutcome(f, net).ret = CuttlyShortLink(net[1])

\* single dispatches to cuttly have returned: one with the short link of a status 7
\* answer
CuttlyAnswered ==
    \E f \in SingleFlows :
        /\ flows[f].pc = "done"
        /\ flows[f].service = CUTTLY
        /\ flows[f].http = <<Request(CUTTLY, "GET")>>
        /\ flows[f].results # << >>
        /\ Truthy(flows[f].results[1])

\* C15: gplinks, with its key configured, never returns a failure without having sent
\* the POST: whenever the GET yields no short URL the POST is attempted.
GplinksFailsOnlyAfterPost ==
    \A f \in SingleFlows :
        (/\ flows[f].pc = "done"
         /\ flows[f].service = GPLINKS
         /\ is_valid_url(flows[f].url)
         /\ config.GPLINKS_API # << >>
         /\ ~(flows[f].results # << >> /\ Truthy(flows[f].results[1])))
        => \E i \in 1..Len(flows[f].http) : flows[f].http[i] = Request(GPLINKS, "POST")

\* a step in which process_url of flow f stores its URL and replies
StoreStep(f) ==
    /\ flows[f].pc = "typing"
    /\ flows[f].handler = "process_url"
    /\ flows'[f].pc = "done"

\* C19: the cache has no eviction.  A token in the cache is in it after every step,
\* and get_url keeps returning the URL stored for it unless the step is a store_url of
\* another URL with the same token.
CacheNeverEvicts ==
    [][\A token \in DOMAIN url_cache :
          /\ token \in DOMAIN url_cache'
          /\ get_url(url_cache', token) # << >>
          /\ \/ get_url(url_cache', token) = get_url(url_cache, token)
             \/ \E f \in Flows : /\ StoreStep(f)
                                 /\ generate_url_id(flows[f].url) = token
                                 /\ flows[f].url # url_cache[token]]_vars

\* two tokens are in the cache, and shorten_url has been called since, for a URL the
\* cache resolved
CacheKeptTwoTokens ==
    /\ generate_url_id(UrlExample) \in DOMAIN url_cache
    /\ generate_url_id(UrlCollideA) \in DOMAIN url_cache
    /\ bot_status.total_requests >= 1
    /\ \E f \in SingleFlows \cup AllFlows : flows[f].url = UrlCollideB

\* C20: on a token collision the last writer wins.  After store_url(u) get_url of u's
\* token returns u, whatever URL the token held before, and a callback that carries a
\* token of the cache dispatches the URL the cache holds for it.
LastWriterWins ==
    [][\A f \in Flows :
          /\ StoreStep(f) =>
                get_url(url_cache', generate_url_id(flows[f].url)) = flows[f].url
          /\ (/\ flows[f].pc = "answered"
              /\ flows'[f].pc # "answered"
              /\ StartsWith(flows[f].data, <<"s", "_">>)
              /\ Len(Split2(flows[f].data)) = 3
              /\ Split2(flows[f].data)[3] \in DOMAIN url_cache) =>
                /\ flows'[f].pc = "dispatch"
                /\ flows'[f].url = url_cache[Split2(flows[f].data)[3]]]_vars

\* one chat stored UrlCollideA, another then stored UrlCollideB under the same token,
\* and a callback with that token is being dispatched with UrlCollideB
CollidingStoreDispatched ==
    \E f, g \in Flows :
        /\ flows[f].handler = "process_url" /\ flows[f].pc = "done"
        /\ flows[f].url = UrlCollideA
        /\ flows[g].pc = "dispatch" /\ flows[g].url = UrlCollideB
        /\ generate_url_id(UrlCollideA) \in DOMAIN url_cache
        /\ url_cache[generate_url_id(UrlCollideA)] = UrlCollideB

\* a step in which the web server's loop makes one probe
ProbeStep == Len(web'.health) = Len(web.health) + 1

\* C16: every health probe of a provider overwrites the provider's entry in the
\* health table, on every path: after the probe the table holds an entry for the
\* provider whose status is the status the probe returned.
ProbeOverwritesEntry ==
    [][ProbeStep =>
          /\ WebService \in DOMAIN bot_status'.api_status
          /\ bot_status'.api_status[WebService].status
                = web'.health[Len(web'.health)].status]_vars

\* C17: the /status report shows of each credential its first 8 characters followed by
\* an ellipsis and never the whole credential, and configurations whose credentials
\* agree on their first 8 characters produce the same report.
StatusMasksCredentials ==
    \A f \in Flows :
        (flows[f].handler = "status" /\ flows[f].pc = "done") =>
            /\ \A i \in 1..Len(SUPPORTED_SERVICES) :
                  Credential(config, SUPPORTED_SERVICES[i].key) # << >> =>
                     /\ flows[f].message.entries[i].key_preview
                           = Prefix(Credential(config, SUPPORTED_SERVICES[i].key), 8)
                               \o <<".", ".", ".">>
                     /\ ~Contains(flows[f].message.entries[i].key_preview,
                                  Credential(config, SUPPORTED_SERVICES[i].key))
            /\ \A cfg \in HealthConfigs :
                  (\A service \in ServiceKeys :
                      Prefix(Credential(cfg, service), 8)
                         = Prefix(Credential(config, service), 8))
                  => StatusText(cfg) = flows[f].message.entries

\* C18: total_requests, successful_shortens and failed_shortens never decrease, whatever
\* the step: a shorten call, a health probe, a read of the statistics, a cache operation.
CountersNeverDecrease ==
    [][/\ bot_status'.total_requests >= bot_status.total_requests
       /\ bot_status'.successful_shortens >= bot_status.successful_shortens
       /\ bot_status'.failed_shortens >= bot_status.failed_shortens]_vars

\* shorten_url has been counted, the web server has read the statistics since and has
\* then stored the result of a probe in the health table
ProbedAfterShorten ==
    /\ bot_status.total_requests >= 1
    /\ web.route = "api_status"
    /\ web.stats.total_requests >= 1
    /\ Len(web.health) >= 1
    /\ bot_status.api_status # << >>

\* button_handler goes on after await query.answer()
ResolveStep(f) == flows[f].pc = "answered" /\ flows'[f].pc # "answered"

\* C21: a callback whose token is not in the cache is an ordinary miss: the handler
\* answers 'URL not found', contacts no provider, and leaves the three counters and the
\* cache as they were.
CallbackMissHandled ==
    [][\A f \in Flows :
          (/\ ResolveStep(f)
           /\ StartsWith(flows[f].data, <<"s", "_">>)
           /\ Len(Split2(flows[f].data)) = 3
           /\ Split2(flows[f].data)[3] \notin DOMAIN url_cache)
          => /\ flows'[f].pc = "done"
             /\ flows'[f].message.detail = "URL not found. Please try again."
             /\ flows'[f].invoked = << >>
             /\ flows'[f].http = << >>
             /\ bot_status' = bot_status
             /\ url_cache' = url_cache]_vars

\* a button was pressed whose token the cache does not hold, after a URL was stored and
\* a shorten call counted
CallbackMissAnswered ==
    \E f \in Flows :
        /\ flows[f].pc = "done"
        /\ flows[f].message.detail = "URL not found. Please try again."
        /\ Len(Split2(flows[f].data)) = 3
        /\ url_cache # << >>
        /\ Split2(flows[f].data)[3] \notin DOMAIN url_cache
        /\ bot_status.total_requests >= 1

\* C22: successful_shortens grows only in a shorten_url call that returns a non-empty
\* short URL: a call that returns None or the empty string leaves it as it was.
SuccessCountedOnlyWithShortUrl ==
    [][\A f \in Flows : (InCall(f) /\ flows[f].handler = "send_single_shortened_url") =>
          (bot_status'.successful_shortens # bot_status.successful_shortens
             => /\ flows'[f].pc = "done"
                /\ flows'[f].results # << >>
                /\ flows'[f].results[1].t = "str"
                /\ flows'[f].results[1].s # << >>)]_vars

\* the answer r to the GET of gplinks carries a short URL: a bare URL as the body, or a
\* JSON document with status 'success' and the URL under shortenedUrl or shorturl
GplinksGetGaveUrl(r) ==
    /\ r.kind = "response"
    /\ r.status_code = 200
    /\ \/ r.body.fmt = "text" /\ StartsWith(Strip(r.body.text), <<"h", "t", "t", "p">>)
       \/ /\ r.body.fmt = "json"
          /\ r.body.value.t = "dict"
          /\ EqStr(DictGet(r.body.value, "status", None),
                   <<"s", "u", "c", "c", "e", "s", "s">>)
          /\ \/ Truthy(DictGet(r.body.value, "shortenedUrl", None))
             \/ Truthy(DictGet(r.body.value, "shorturl", None))

\* C23: gplinks sends at most two HTTP requests per shorten call, the GET before the
\* POST, and no POST after a GET whose answer already carried a short URL; whatever the
\* POST would have been answered.
GplinksGetBeforePost ==
    \A f \in SingleReady : flows[f].service = GPLINKS =>
        \A net \in GplinksGetOutcomes \X GplinksPostOutcomes :
            /\ ShortenOutcome(f, net).http
                  \in {<< >>, <<Request(GPLINKS, "GET")>>,
                       <<Request(GPLINKS, "GET"), Request(GPLINKS, "POST")>>}
            /\ GplinksGetGaveUrl(net[1]) /\ config.GPLINKS_API # << >>
                  => ShortenOutcome(f, net).http = <<Request(GPLINKS, "GET")>>

\* a single dispatch to gplinks, its key configured, that returned a short URL after the
\* GET alone
GplinksGetSufficed ==
    \E f \in SingleFlows :
        /\ flows[f].pc = "done"
        /\ flows[f].service = GPLINKS
        /\ config.GPLINKS_API # << >>
        /\ flows[f].http = <<Request(GPLINKS, "GET")>>
        /\ flows[f].results # << >>
        /\ Truthy(flows[f].results[1])

\* C24: every callback payload of a keyboard process_url built is s_<service code>_<token>
\* with a token of 8 hex characters: at most 16 characters long whatever the length of
\* the URL, and the URL is no part of it.
PayloadsShortAndOpaque ==
    \A f \in Flows :
        (flows[f].handler = "process_url" /\ flows[f].keyboard # << >>) =>
            /\ Len(flows[f].keyboard) = Len(ButtonCodes)
            /\ \A i \in 1..Len(flows[f].keyboard) :
                  /\ Len(Split2(flows[f].keyboard[i])) = 3
                  /\ Split2(flows[f].keyboard[i])[1] = <<"s">>
                  /\ Split2(flows[f].keyboard[i])[2] = ButtonCodes[i]
                  /\ Len(Split2(flows[f].keyboard[i])[3]) = 8
                  /\ \A k \in 1..8 :
                        \E d \in 1..Len(HexDigits) :
                           Split2(flows[f].keyboard[i])[3][k] = HexDigits[d]
                  /\ Len(flows[f].keyboard[i]) <= 16
                  /\ ~Contains(flows[f].keyboard[i], flows[f].url)

\* process_url has built the keyboard for a URL of more than 16 characters
KeyboardBuiltForLongUrl ==
    \E f \in Flows :
        /\ flows[f].handler = "process_url"
        /\ flows[f].pc = "done"
        /\ Len(flows[f].keyboard) = Len(ButtonCodes)
        /\ Len(flows[f].url) > 16
        /\ flows[f].keyboard[1] = CallbackData(ButtonCodes[1], generate_url_id(flows[f].url))

\* C25: every entry of the cache maps a token to a URL that is_valid_url accepts and
\* whose generate_url_id is that token; process_url stores only after the validation,
\* and a URL it rejects leaves the cache as it was.
CacheHoldsValidUrls ==
    /\ [](\A t \in DOMAIN url_cache :
             /\ is_valid_url(url_cache[t])
             /\ generate_url_id(url_cache[t]) = t)
    /\ [][\A f \in Flows :
             (/\ flows[f].pc = "idle"
              /\ flows'[f].handler = "process_url"
              /\ ~is_valid_url(flows'[f].url))
             => /\ flows'[f].pc = "done"
                /\ url_cache' = url_cache]_vars

\* process_url has rejected a URL while the cache holds an entry stored earlier
RejectedWithCacheFilled ==
    \E f \in Flows :
        /\ flows[f].handler = "process_url"
        /\ flows[f].pc = "done"
        /\ flows[f].message.kind = "invalid_url"
        /\ ~is_valid_url(flows[f].url)
        /\ url_cache # << >>

\* C26: successful_shortens and failed_shortens never exceed total_requests, so the
\* success rate get_stats reports lies between 0 and 100, and it is 0 while
\* total_requests is 0.
SuccessRateWithinBounds ==
    /\ bot_status.successful_shortens <= bot_status.total_requests
    /\ bot_status.failed_shortens <= bot_status.total_requests
    /\ get_stats(bot_status).success_rate.den > 0
    /\ get_stats(bot_status).success_rate.num >= 0
    /\ get_stats(bot_status).success_rate.num
          <= 100 * get_stats(bot_status).success_rate.den
    /\ bot_status.total_requests = 0 => get_stats(bot_status).success_rate.num = 0

\* several calls were counted, every one as a success and one of them as a failure too:
\* the rate reported is 100
RateAtItsUpperBound ==
    /\ bot_status.total_requests >= 2
    /\ bot_status.successful_shortens = bot_status.total_requests
    /\ bot_status.failed_shortens >= 1
    /\ get_stats(bot_status).success_rate.num = 100 * get_stats(bot_status).success_rate.den

\* C27: a shorten_url call that rejects its URL as invalid adds one to total_requests and
\* one to failed_shortens and leaves successful_shortens, the cache and the health table
\* as they were; no request is sent and None is returned.
InvalidUrlCountedAsFailure ==
    [][\A f \in Flows :
          /\ (SingleEnters(f) /\ ~is_valid_url(flows[f].url)) =>
                /\ bot_status'.total_requests = bot_status.total_requests + 1
                /\ bot_status'.failed_shortens = bot_status.failed_shortens
                /\ bot_status'.successful_shortens = bot_status.successful_shortens
                /\ bot_status'.api_status = bot_status.api_status
                /\ url_cache' = url_cache
          /\ (InCall(f) /\ flows[f].handler = "send_single_shortened_url"
                /\ ~is_valid_url(flows[f].url) /\ flows'[f] # flows[f]) =>
                /\ flows[f].pc = "request"
                /\ flows'[f].pc = "done"
                /\ bot_status'.total_requests = bot_status.total_requests
                /\ bot_status'.failed_shortens = bot_status.failed_shortens + 1
                /\ bot_status'.successful_shortens = bot_status.successful_shortens
                /\ bot_status'.api_status = bot_status.api_status
                /\ url_cache' = url_cache
                /\ flows'[f].http = << >>
                /\ flows'[f].results = <<None>>]_vars

\* shorten_url has rejected a URL while the health table holds the result of a probe
InvalidUrlRejectedAfterProbe ==
    \E f \in SingleFlows :
        /\ flows[f].pc = "done"
        /\ ~is_valid_url(flows[f].url)
        /\ flows[f].results = <<None>>
        /\ bot_status.failed_shortens = 1
        /\ bot_status.api_status # << >>

\* the service code of the callback that flow f dispatches for is none of the five of
\* the keyboard
ForeignCode(f) ==
    /\ Len(Split2(flows[f].data)) = 3
    /\ \A i \in 1..Len(ButtonCodes) : Split2(flows[f].data)[2] # ButtonCodes[i]

\* no provider is contacted, a failure is returned, total_requests grows by one when
\* shorten_url is entered and failed_shortens by one before it returns
FailedWithoutProvider(f) ==
    /\ SingleEnters(f) =>
          /\ bot_status'.total_requests = bot_status.total_requests + 1
          /\ bot_status'.failed_shortens = bot_status.failed_shortens
          /\ bot_status'.successful_shortens = bot_status.successful_shortens
    /\ (InCall(f) /\ flows'[f] # flows[f]) =>
          /\ flows[f].pc = "request"
          /\ flows'[f].pc = "done"
          /\ flows'[f].http = << >>
          /\ flows'[f].results = <<None>>
          /\ flows'[f].message.kind = "single_failed"
          /\ bot_status'.total_requests = bot_status.total_requests
          /\ bot_status'.failed_shortens = bot_status.failed_shortens + 1
          /\ bot_status'.successful_shortens = bot_status.successful_shortens

\* C28 as stated: a callback whose service code is outside {bitly, tiny, cutt, gpl, all}
\* and whose token is in the cache contacts no provider, returns a failure, and adds one
\* to total_requests and one to failed_shortens.
ForeignCodeContactsNoProvider ==
    [][\A f \in Flows :
          (flows[f].handler = "send_single_shortened_url" /\ ForeignCode(f))
          => FailedWithoutProvider(f)]_vars

\* C28 as amended: the same for a service code that is outside {bitly, tiny, cutt, gpl,
\* all} and is not the full name of a provider either (tinyurl, cuttly, gplinks):
\* service_map hands an unmapped code on as the service, and a full name is dispatched
\* to its provider.
ForeignCodeNotAServiceContactsNoProvider ==
    [][\A f \in Flows :
          (/\ flows[f].handler = "send_single_shortened_url"
           /\ ForeignCode(f)
           /\ Split2(flows[f].data)[2] \notin ServiceKeys)
          => FailedWithoutProvider(f)]_vars

\* the callback s_xyz_<token> was dispatched for a cached URL and has failed
ForeignCodeDispatched ==
    \E f \in Flows :
        /\ flows[f].pc = "done"
        /\ flows[f].handler = "send_single_shortened_url"
        /\ Len(Split2(flows[f].data)) = 3
        /\ Split2(flows[f].data)[2] = <<"x", "y", "z">>
        /\ Split2(flows[f].data)[3] \in DOMAIN url_cache
        /\ flows[f].invoked = <<<<"x", "y", "z">>>>
        /\ bot_status.failed_shortens >= 1

\* C29: in the revision without a cache the URL survives the trip through the callback
\* payload: the URL button_handler decodes from a payload that process_url built for a
\* valid URL u is u, also when u contains '_' or '|'.
LegacyPayloadRoundTrips ==
    \A f, g \in Flows :
        (/\ flows[f].handler = "process_url"
         /\ flows[g].handler \in {"send_single_shortened_url", "send_all_shortened_urls"}
         /\ \E i \in DOMAIN flows[f].keyboard : flows[f].keyboard[i] = flows[g].data)
        => /\ flows[g].service \in {BITLY, TINYURL, CUTTLY, GPLINKS, ALL}
           /\ flows[g].url = flows[f].url

\* a step of the /stats command in chat f: the read of the statistics or one of its
\* probes
StatsStep(f) == flows'[f].handler = "bot_stats" /\ flows'[f] # flows[f]

\* a step of shorten_url called in chat f: the entry, the body of the try up to its
\* second request or to its end, the except clauses
ShortenStep(f) ==
    /\ flows[f].handler \in {"send_single_shortened_url", "send_all_shortened_urls"}
    /\ flows[f].pc \in {"dispatch", "request", "post", "except"}
    /\ flows'[f] # flows[f]

\* C30: probes and shorten calls have disjoint effects: a step of check_api_health, on
\* the thread of the web server or in the /stats command, leaves total_requests,
\* successful_shortens, failed_shortens and the cache as they were, and a step of
\* shorten_url leaves the health table as it was, however the steps are interleaved.
ProbesAndShortensDisjoint ==
    [][/\ (ProbeStep \/ \E f \in Flows : StatsStep(f)) =>
             /\ bot_status'.total_requests = bot_status.total_requests
             /\ bot_status'.successful_shortens = bot_status.successful_shortens
             /\ bot_status'.failed_shortens = bot_status.failed_shortens
             /\ url_cache' = url_cache
       /\ \A f \in Flows : ShortenStep(f) =>
             bot_status'.api_status = bot_status.api_status]_vars

\* the probes of /stats have stored their results, a shorten call has been entered
\* since and waits in its except clauses, and meanwhile the web server has read the
\* statistics, the request counted and its outcome not yet, has probed bitly, whose
\* token is not configured, and has stored the result of its probe of tinyurl over that
\* of /stats
ProbesAroundShorten ==
    \E f, g \in Flows :
        /\ flows[f].handler = "bot_stats"
        /\ flows[f].pc = "done"
        /\ flows[g].handler = "send_single_shortened_url"
        /\ flows[g].pc = "except"
        /\ web.route = "api_status"
        /\ web.stats.total_requests = bot_status.total_requests
        /\ web.stats.successful_shortens + web.stats.failed_shortens
              < web.stats.total_requests
        /\ Len(web.health) >= 2
        /\ web.health[1].message = "API key not configured"
        /\ BITLY \notin DOMAIN bot_status.api_status
        /\ web.stats.api_status = bot_status.api_status
        /\ TINYURL \in DOMAIN bot_status.api_status
        /\ bot_status.api_status[TINYURL].status = "connected"
        /\ GPLINKS \in DOMAIN bot_status.api_status
        /\ bot_status.api_status[GPLINKS].status = "timeout"

=============================================================================
